---------------------------- MODULE Spec2Model ----------------------------
(***************************************************************************)
(* biscuit8: a CHIP-8 emulator.  The model covers the library (Instruction,*)
(* Screen, Keys, Chip8) and the instruction loop of the biscuit8-pixels    *)
(* frontend.                                                               *)
(*                                                                         *)
(* Conventions.                                                            *)
(*  - Option<T>: None is <<>>, Some(x) is <<x>>.                           *)
(*  - u8 / u16 / usize values are naturals; every operator that the code   *)
(*    computes in a fixed width reduces its result to that width.          *)
(*  - An array of bytes (RAM) is the function from the indices that hold a  *)
(*    nonzero byte to that byte: an index outside its domain holds 0.  An  *)
(*    array of bools (the screen) is the set of the indices that hold true.*)
(*    Every array of the declared length has exactly one such form.        *)
(*  - A Rust panic ends the process.  It is recorded in the field          *)
(*    "panicked" of the engine record; every engine method leaves a        *)
(*    panicked engine alone.                                               *)
(*  - Integer overflow in Rust panics when the build has overflow checks   *)
(*    (debug profile) and wraps otherwise (release profile).  The profile  *)
(*    is the variable overflow_checks, chosen once, when the run starts.   *)
(***************************************************************************)
EXTENDS Integers, Sequences, FiniteSets

VARIABLES
    rom,              \* the ROM handed to Chip8::new (input, kept for reference)
    overflow_checks,  \* build profile: TRUE = overflow checks on (debug)
    chip8,            \* the Chip8 instance (a record of its fields)
    keys,             \* the caller's / frontend's Keys object
    result,           \* what the last call of Chip8::new / instruction_cycle gave
    cycles,           \* number of instruction_cycle calls made so far
    layout,           \* the frontend's keyboard layout (args.layout)
    exited,           \* the frontend's event loop has exited
    pending,          \* history: the latest press event since the last cycle
                      \* (or explicit reset_last_pressed)
    held,             \* history: the keys whose latest event was a press
    since_decrement   \* self.last_decrement.elapsed() now, in nanoseconds

vars == <<rom, overflow_checks, chip8, keys, result, cycles, layout, exited,
          pending, held, since_decrement>>

----------------------------------------------------------------------------
(* Bounds of the model. *)

\* instruction_cycle is called at most MaxCycles times in a run
MaxCycles == 4

\* a timed run lets at most MaxWaits half periods pass without a decrement
MaxWaits == 5

\* a run of subroutine calls makes at most MaxCallCycles calls of
\* instruction_cycle
MaxCallCycles == 18

\* a run of a drawing program makes at most MaxDrawCycles calls of
\* instruction_cycle
MaxDrawCycles == 6

\* a run of a store-and-load program makes at most MaxMemCycles calls of
\* instruction_cycle
MaxMemCycles == 8

\* a run to the end of RAM makes at most MaxRunCycles calls of
\* instruction_cycle: one for each of the (RAM_SIZE - ROM_LOC) / 2 words from
\* ROM_LOC on, and one more
MaxRunCycles == 1793

----------------------------------------------------------------------------
(* Program constants. *)

RAM_SIZE == 4096

ROM_LOC == 512

WIDTH == 64

HEIGHT == 32

\* Duration::new(0, 16666666) is one timer period; the model only needs to
\* know whether it has elapsed (see decrement_timers)

FONT_SPRITES ==
    << 240, 144, 144, 144, 240,
        32,  96,  32,  32, 112,
       240,  16, 240, 128, 240,
       240,  16, 240,  16, 240,
       144, 144, 240,  16,  16,
       240, 128, 240,  16, 240,
       240, 128, 240, 144, 240,
       240,  16,  32,  64,  64,
       240, 144, 240, 144, 240,
       240, 144, 240,  16, 240,
       240, 144, 240, 144, 144,
       224, 144, 224, 144, 224,
       240, 128, 128, 128, 240,
       224, 144, 144, 144, 224,
       240, 128, 240, 128, 240,
       240, 128, 240, 128, 128 >>

----------------------------------------------------------------------------
(* Options and fixed-width bit arithmetic. *)

None == <<>>

Some(val) == <<val>>

IsSome(o) == o # <<>>

Unwrap(o) == o[1]

RECURSIVE BitAnd(_, _, _)
\* a & b on w-bit operands
BitAnd(a, b, w) ==
    IF w = 0 THEN 0
    ELSE (a % 2) * (b % 2) + 2 * BitAnd(a \div 2, b \div 2, w - 1)

RECURSIVE BitOr(_, _, _)
\* a | b on w-bit operands
BitOr(a, b, w) ==
    IF w = 0 THEN 0
    ELSE (IF a % 2 = 1 \/ b % 2 = 1 THEN 1 ELSE 0)
         + 2 * BitOr(a \div 2, b \div 2, w - 1)

RECURSIVE BitXor(_, _, _)
\* a ^ b on w-bit operands
BitXor(a, b, w) ==
    IF w = 0 THEN 0
    ELSE (IF a % 2 # b % 2 THEN 1 ELSE 0)
         + 2 * BitXor(a \div 2, b \div 2, w - 1)

\* !a on a w-bit operand
BitNot(a, w) == (2 ^ w - 1) - a

\* a >> k (k below the width)
Shr(a, k) == a \div (2 ^ k)

\* a << k on a w-bit operand, k below the width: the bits shifted out are lost
Shl(a, k, w) == (a * (2 ^ k)) % (2 ^ w)

----------------------------------------------------------------------------
(* instruction.rs: Instruction { raw: u16 } is represented by raw. *)

nibbles(raw) ==
    << Shr(BitAnd(raw, 61440, 16), 12),
       Shr(BitAnd(raw, 3840, 16), 8),
       Shr(BitAnd(raw, 240, 16), 4),
       BitAnd(raw, 15, 16) >>

x(raw) == Shr(BitAnd(raw, 3840, 16), 8)

y(raw) == Shr(BitAnd(raw, 240, 16), 4)

n(raw) == BitAnd(raw, 15, 16)

nn(raw) == BitAnd(raw, 255, 16)


\* nnn with the mask of nn
nnn_low_byte(raw) == BitAnd(raw, 255, 16)

nnn(raw) == BitAnd(raw, 4095, 16)

----------------------------------------------------------------------------
(* keys.rs: Keys { raw: u16, last_pressed: Option<u8> }. *)

Keys_new == [raw |-> 0, last_pressed |-> None]

\* `1 << key` on a u16 with key: u8.  A shift by 16 or more overflows.
ShiftOverflows(key) == key >= 16

\* The value of `1 << key` when it does not panic: without overflow checks the
\* shift amount is taken modulo the width.
OneShl(key) == Shl(1, key % 16, 16)

\* `1 << key` panics ("attempt to shift left with overflow"): the shift
\* overflows in a build with overflow checks
ShiftPanics(key) == ShiftOverflows(key) /\ overflow_checks

\* what a method of Keys or Screen gives when it panics instead of returning
Panicked == "panic"

\* self.raw |= 1 << key; self.last_pressed = Some(key)
press_key(ks, key) ==
    IF ShiftPanics(key) THEN Panicked
    ELSE [raw |-> BitOr(ks.raw, OneShl(key), 16), last_pressed |-> Some(key)]

\* a release that also forgets the last-pressed key
release_key_forgetting(ks, key) ==
    IF ShiftPanics(key) THEN Panicked
    ELSE [ks EXCEPT !.raw = BitAnd(ks.raw, BitNot(OneShl(key), 16), 16),
                    !.last_pressed = None]

\* self.raw &= !(1 << key)
release_key(ks, key) ==
    IF ShiftPanics(key) THEN Panicked
    ELSE [ks EXCEPT !.raw = BitAnd(ks.raw, BitNot(OneShl(key), 16), 16)]

\* a reset that keeps the last-pressed key
reset_last_pressed_keeping(ks) == ks

reset_last_pressed(ks) == [ks EXCEPT !.last_pressed = None]

\* (self.raw & (1 << key)) != 0
key_pressed(ks, key) ==
    IF ShiftPanics(key) THEN Panicked
    ELSE BitAnd(ks.raw, OneShl(key), 16) # 0

last_pressed(ks) == ks.last_pressed

----------------------------------------------------------------------------
(* screen.rs: Screen { raw: [bool; WIDTH * HEIGHT] }, as the set of the     *)
(* positions in 0 .. WIDTH * HEIGHT - 1 whose cell is true.                *)

Screen_new == {}

\* self.raw.fill(false)
clear(scr) == {pos \in scr : FALSE}

\* self.raw[y * WIDTH + x] with x, y: usize (64 bits).  When y * WIDTH + x
\* does not fit a usize, the arithmetic panics in a build with overflow
\* checks and wraps modulo 2^64 otherwise; the indexing then panics when the
\* index is out of bounds.  Operands below 2^24 cannot overflow, and the sum
\* is compared with 2^64 for the others only.
pixel(scr, px, py) ==
    LET overflows == ~(px < 2 ^ 24 /\ py < 2 ^ 24) /\ py * WIDTH + px >= 2 ^ 64
        index     == IF overflows THEN (py * WIDTH + px) % (2 ^ 64)
                     ELSE py * WIDTH + px
    IN  IF overflows /\ overflow_checks THEN Panicked
        ELSE IF index >= WIDTH * HEIGHT THEN Panicked
        ELSE index \in scr

\* bit = (row & 0b10000000 >> j) << j, as a u8
SpriteBit(row, j) == Shl(BitAnd(row, Shr(128, j), 8), j, 8)

RECURSIVE DrawCols(_, _, _, _, _, _)
\* the inner loop `for j in 0..8` of draw_sprite, from column j on, for the
\* sprite row `row` drawn on screen line `line`; acc = [raw, erased]
DrawCols(acc, row, sx, line, j, stop) ==
    IF j >= stop \/ sx + j >= WIDTH THEN acc
    ELSE LET pos == line * WIDTH + sx + j
             old == pos \in acc.raw
             new == (old # (SpriteBit(row, j) # 0))
         IN  IF new
             THEN DrawCols([raw |-> acc.raw \cup {pos}, erased |-> acc.erased],
                           row, sx, line, j + 1, stop)
             ELSE DrawCols([raw |-> acc.raw \ {pos}, erased |-> acc.erased \/ old],
                           row, sx, line, j + 1, stop)

RECURSIVE DrawRows(_, _, _, _, _)
\* the outer loop `for (i, row) in sprite.iter().enumerate()`, from row i on
DrawRows(acc, sprite, sx, sy, i) ==
    IF i >= Len(sprite) \/ sy + i >= HEIGHT THEN acc
    ELSE DrawRows(DrawCols(acc, sprite[i + 1], sx, sy + i, 0, 8),
                  sprite, sx, sy, i + 1)

\* a draw that does not wrap its start position
Screen_draw_sprite_unwrapped(scr, sprite, px, py) ==
    DrawRows([raw |-> scr, erased |-> FALSE], sprite, px, py, 0)


\* a draw that ORs the sprite onto the screen and reports no erased cell
Screen_draw_sprite_or(scr, sprite, px, py) ==
    LET alone == DrawRows([raw |-> {}, erased |-> FALSE], sprite,
                          px % WIDTH, py % HEIGHT, 0)
    IN  [raw |-> scr \cup alone.raw, erased |-> FALSE]

\* Screen::draw_sprite: gives [raw |-> the screen afterwards, erased |-> the
\* returned bool]
Screen_draw_sprite(scr, sprite, px, py) ==
    DrawRows([raw |-> scr, erased |-> FALSE], sprite, px % WIDTH, py % HEIGHT, 0)

----------------------------------------------------------------------------
(* chip8.rs: the engine.                                                   *)
(*                                                                         *)
(* A Chip8 is the record [ram, v, i, pc, dt, st, stack, instruction, keys, *)
(* screen, panicked].  ram holds the bytes of the addresses                *)
(* 0 .. RAM_SIZE-1 and v is indexed 0 .. 15.  The fields last_decrement    *)
(* and rng are not kept in the record: what the code reads from them       *)
(* (whether the timer period has elapsed, the random byte) is an input of  *)
(* instruction_cycle; the time since last_decrement is the variable        *)
(* since_decrement.                                                        *)

\* bytes[a] of an array of bytes
ByteAt(bytes, a) == IF a \in DOMAIN bytes THEN bytes[a] ELSE 0

\* the array bytes after bytes[a] = val
ByteSet(bytes, a, val) ==
    IF val = 0
    THEN [b \in DOMAIN bytes \ {a} |-> bytes[b]]
    ELSE [b \in DOMAIN bytes \cup {a} |-> IF b = a THEN val ELSE bytes[b]]

\* a panic inside an engine method: the process is gone, the fields stay as
\* they were when it happened
Panic(m) == [m EXCEPT !.panicked = TRUE]

\* self.v[reg] = val
SetV(m, reg, val) == [m EXCEPT !.v[reg] = val]

BoolU8(b) == IF b THEN 1 ELSE 0

\* The RAM image built by Chip8::new: font, then zeros, then the ROM at ROM_LOC
\* ram = [0; RAM_SIZE]; ram[..FONT_SPRITES.len()].copy_from_slice(&FONT_SPRITES)
FontRam ==
    [a \in {b \in 0 .. (Len(FONT_SPRITES) - 1) : FONT_SPRITES[b + 1] # 0} |->
        FONT_SPRITES[a + 1]]


\* InitialRam without the copy of FONT_SPRITES
InitialRam_without_font(bytes) ==
    LET romNonzero == {b \in ROM_LOC .. (Len(bytes) + ROM_LOC - 1) :
                          bytes[b - ROM_LOC + 1] # 0}
    IN  [a \in romNonzero |-> bytes[a - ROM_LOC + 1]]

\* ram[ROM_LOC..rom.len() + ROM_LOC].copy_from_slice(rom), on top of FontRam
InitialRam(bytes) ==
    LET romNonzero == {b \in ROM_LOC .. (Len(bytes) + ROM_LOC - 1) :
                          bytes[b - ROM_LOC + 1] # 0}
        romRange   == ROM_LOC .. (Len(bytes) + ROM_LOC - 1)
    IN  [a \in (DOMAIN FontRam \ romRange) \cup romNonzero |->
            IF a \in romRange THEN bytes[a - ROM_LOC + 1] ELSE FontRam[a]]

\* The Ok value of Chip8::new
Constructed(bytes) ==
    [ram         |-> InitialRam(bytes),
     v           |-> [reg \in 0 .. 15 |-> 0],
     i           |-> 0,
     pc          |-> ROM_LOC,
     dt          |-> 0,
     st          |-> 0,
     stack       |-> <<>>,
     instruction |-> 0,
     keys        |-> Keys_new,
     screen      |-> Screen_new,
     panicked    |-> FALSE]

\* Chip8::new rejects the ROM
RomTooBig(bytes) == Len(bytes) > RAM_SIZE - ROM_LOC

\* `rom.len() - RAM_SIZE - ROM_LOC` is evaluated left to right on usize: it
\* underflows when rom.len() < RAM_SIZE + ROM_LOC
ExceedUnderflows(bytes) == Len(bytes) < RAM_SIZE + ROM_LOC

\* The value of exceed; a negative number e stands for the wrapped usize
\* 2^BITS + e
Exceed(bytes) == Len(bytes) - RAM_SIZE - ROM_LOC

\* Duration::new(0, 16666666), in nanoseconds
Period == 16666666

\* self.last_decrement.elapsed() >= Duration::new(0, 16666666)
Elapsed(ns) == ns >= Period

\* a timer step that decrements without looking for zero (u8 wrap)
decrement_timers_wrapping(m, elapsed) ==
    IF elapsed
    THEN [m EXCEPT !.dt = (m.dt + 255) % 256,
                   !.st = (m.st + 255) % 256]
    ELSE m

decrement_timers(m, elapsed) ==
    IF elapsed
    THEN [m EXCEPT !.dt = IF m.dt # 0 THEN m.dt - 1 ELSE m.dt,
                   !.st = IF m.st # 0 THEN m.st - 1 ELSE m.st]
    ELSE m

\* self.ram.get(a)
RamGet(m, a) == IF a < RAM_SIZE THEN Some(ByteAt(m.ram, a)) ELSE None

\* u16::from_be_bytes([first, second])
FromBeBytes(first, second) == first * 256 + second

\* a fetch whose second byte wraps around the end of RAM instead of failing
fetch_instruction_wrapping(m) ==
    LET first  == RamGet(m, m.pc)
        second == RamGet(m, (m.pc + 1) % RAM_SIZE)
    IN  IF first = None THEN None
        ELSE Some(FromBeBytes(Unwrap(first), Unwrap(second)))

fetch_instruction(m) ==
    LET first  == RamGet(m, m.pc)
        second == RamGet(m, m.pc + 1)
    IN  IF first = None THEN None
        ELSE IF second = None THEN None
        ELSE Some(FromBeBytes(Unwrap(first), Unwrap(second)))

clear_screen(m) == [m EXCEPT !.screen = clear(m.screen)]

\* a return that takes the oldest return address instead of the newest
subroutine_return_oldest(m) ==
    IF m.stack = <<>> THEN Panic(m)
    ELSE [m EXCEPT !.pc = m.stack[1], !.stack = Tail(m.stack)]

subroutine_return(m) ==
    IF m.stack = <<>> THEN Panic(m)
    ELSE [m EXCEPT !.pc = m.stack[Len(m.stack)],
                   !.stack = SubSeq(m.stack, 1, Len(m.stack) - 1)]

jump_addr(m) == [m EXCEPT !.pc = nnn(m.instruction)]

call_subroutine(m) ==
    [m EXCEPT !.stack = Append(m.stack, m.pc), !.pc = nnn(m.instruction)]

skip_eq_byte(m) ==
    IF m.v[x(m.instruction)] = nn(m.instruction)
    THEN [m EXCEPT !.pc = m.pc + 2] ELSE m

skip_not_byte(m) ==
    IF m.v[x(m.instruction)] # nn(m.instruction)
    THEN [m EXCEPT !.pc = m.pc + 2] ELSE m

skip_eq_reg(m) ==
    IF m.v[x(m.instruction)] = m.v[y(m.instruction)]
    THEN [m EXCEPT !.pc = m.pc + 2] ELSE m

set_reg_byte(m) == SetV(m, x(m.instruction), nn(m.instruction))


\* add_byte that also writes the carry to VF, as add_reg does
add_byte_with_carry(m) ==
    LET sum == m.v[x(m.instruction)] + nn(m.instruction)
    IN  SetV(SetV(m, x(m.instruction), sum % 256), 15, BoolU8(sum > 255))

add_byte(m) ==
    SetV(m, x(m.instruction), (m.v[x(m.instruction)] + nn(m.instruction)) % 256)

set_reg_reg(m) == SetV(m, x(m.instruction), m.v[y(m.instruction)])

or_reg(m) ==
    SetV(SetV(m, x(m.instruction),
              BitOr(m.v[x(m.instruction)], m.v[y(m.instruction)], 8)),
         15, 0)

and_reg(m) ==
    SetV(SetV(m, x(m.instruction),
              BitAnd(m.v[x(m.instruction)], m.v[y(m.instruction)], 8)),
         15, 0)

\* an exclusive or that leaves VF alone
xor_reg_keeping_flag(m) ==
    SetV(m, x(m.instruction),
         BitXor(m.v[x(m.instruction)], m.v[y(m.instruction)], 8))

xor_reg(m) ==
    SetV(SetV(m, x(m.instruction),
              BitXor(m.v[x(m.instruction)], m.v[y(m.instruction)], 8)),
         15, 0)

\* an addition that takes VF as a carry in
add_reg_carry_in(m) ==
    LET sum == m.v[x(m.instruction)] + m.v[y(m.instruction)] + (m.v[15] % 2)
    IN  SetV(SetV(m, x(m.instruction), sum % 256), 15, BoolU8(sum > 255))

add_reg(m) ==
    LET sum == m.v[x(m.instruction)] + m.v[y(m.instruction)]
    IN  SetV(SetV(m, x(m.instruction), sum % 256), 15, BoolU8(sum > 255))

\* a subtraction whose flag is the borrow itself
sub_reg_borrow_flag(m) ==
    LET diff == m.v[x(m.instruction)] - m.v[y(m.instruction)]
    IN  SetV(SetV(m, x(m.instruction), diff % 256), 15, BoolU8(diff < 0))

sub_reg(m) ==
    LET diff == m.v[x(m.instruction)] - m.v[y(m.instruction)]
    IN  SetV(SetV(m, x(m.instruction), diff % 256), 15, BoolU8(~(diff < 0)))

\* a right shift that takes the flag from the register it shifts, Vy
shr_reg_flag_of_source(m) ==
    LET lsb == BitAnd(m.v[y(m.instruction)], 1, 8)
    IN  SetV(SetV(m, x(m.instruction), Shr(m.v[y(m.instruction)], 1)), 15, lsb)

shr_reg(m) ==
    LET lsb == BitAnd(m.v[x(m.instruction)], 1, 8)
    IN  SetV(SetV(m, x(m.instruction), Shr(m.v[y(m.instruction)], 1)), 15, lsb)

rev_sub_reg(m) ==
    LET diff == m.v[y(m.instruction)] - m.v[x(m.instruction)]
    IN  SetV(SetV(m, x(m.instruction), diff % 256), 15, BoolU8(~(diff < 0)))

shl_reg(m) ==
    LET msb == BitAnd(Shr(m.v[x(m.instruction)], 7), 1, 8)
    IN  SetV(SetV(m, x(m.instruction), Shl(m.v[y(m.instruction)], 1, 8)), 15, msb)

skip_not_reg(m) ==
    IF m.v[x(m.instruction)] # m.v[y(m.instruction)]
    THEN [m EXCEPT !.pc = m.pc + 2] ELSE m

set_index_addr(m) == [m EXCEPT !.i = nnn(m.instruction)]


\* jump_add_addr with the sum reduced to a 12-bit address
jump_add_addr_wrapping(m) ==
    [m EXCEPT !.pc = (nnn(m.instruction) + m.v[0]) % 4096]

jump_add_addr(m) == [m EXCEPT !.pc = nnn(m.instruction) + m.v[0]]

\* rnd is the value of self.rng.u8(0..255)
rand_and_byte(m, rnd) ==
    SetV(m, x(m.instruction), BitAnd(rnd, nn(m.instruction), 8))

\* the values self.rng.u8(0..255) can give: the range excludes its end
RngU8 == 0 .. 254

\* &self.ram[from..to] panics unless from <= to <= RAM_SIZE
SliceOk(from, to) == from <= to /\ to <= RAM_SIZE

\* a draw that sets VF when it draws on a nonempty screen
draw_sprite_flag_of_screen(m) ==
    IF ~SliceOk(m.i, m.i + n(m.instruction)) THEN Panic(m)
    ELSE LET sprite == [k \in 1 .. n(m.instruction) |-> ByteAt(m.ram, m.i + k - 1)]
             drawn  == Screen_draw_sprite(m.screen, sprite,
                                          m.v[x(m.instruction)],
                                          m.v[y(m.instruction)])
         IN  SetV([m EXCEPT !.screen = drawn.raw], 15, BoolU8(m.screen # {}))

draw_sprite(m) ==
    IF ~SliceOk(m.i, m.i + n(m.instruction)) THEN Panic(m)
    ELSE LET sprite == [k \in 1 .. n(m.instruction) |-> ByteAt(m.ram, m.i + k - 1)]
             drawn  == Screen_draw_sprite(m.screen, sprite,
                                          m.v[x(m.instruction)],
                                          m.v[y(m.instruction)])
         IN  SetV([m EXCEPT !.screen = drawn.raw], 15, BoolU8(drawn.erased))

\* self.keys.key_pressed(key) inside the engine: the shift in it panics under
\* overflow checks when key >= 16
skip_eq_key(m) ==
    LET key == m.v[x(m.instruction)]
    IN  IF ShiftPanics(key) THEN Panic(m)
        ELSE IF key_pressed(m.keys, key) THEN [m EXCEPT !.pc = m.pc + 2]
        ELSE m

skip_not_key(m) ==
    LET key == m.v[x(m.instruction)]
    IN  IF ShiftPanics(key) THEN Panic(m)
        ELSE IF ~key_pressed(m.keys, key) THEN [m EXCEPT !.pc = m.pc + 2]
        ELSE m

set_reg_delay(m) == SetV(m, x(m.instruction), m.dt)

\* a key wait that goes on to the next instruction when no key was pressed
set_reg_key_no_wait(m) ==
    IF IsSome(last_pressed(m.keys))
    THEN SetV(m, x(m.instruction), Unwrap(last_pressed(m.keys)))
    ELSE m

set_reg_key(m) ==
    IF IsSome(last_pressed(m.keys))
    THEN SetV(m, x(m.instruction), Unwrap(last_pressed(m.keys)))
    ELSE [m EXCEPT !.pc = m.pc - 2]

set_delay_reg(m) == [m EXCEPT !.dt = m.v[x(m.instruction)]]

set_sound_reg(m) == [m EXCEPT !.st = m.v[x(m.instruction)]]

\* wrapping_add on usize; I stays far below the usize range in every run
add_index_reg(m) == [m EXCEPT !.i = m.i + m.v[x(m.instruction)]]

set_index_char(m) == [m EXCEPT !.i = 5 * m.v[x(m.instruction)]]

\* self.ram[a] = val, which panics when a is out of bounds
RamSet(m, a, val) ==
    IF m.panicked THEN m
    ELSE IF a >= RAM_SIZE THEN Panic(m)
    ELSE [m EXCEPT !.ram = ByteSet(m.ram, a, val)]


\* set_index_bcd with the digits stored ones first
set_index_bcd_ones_first(m) ==
    LET vx == m.v[x(m.instruction)]
    IN  RamSet(RamSet(RamSet(m, m.i, vx % 10),
                      m.i + 1, (vx \div 10) % 10),
               m.i + 2, (vx \div 100) % 10)

set_index_bcd(m) ==
    LET vx == m.v[x(m.instruction)]
    IN  RamSet(RamSet(RamSet(m, m.i, (vx \div 100) % 10),
                      m.i + 1, (vx \div 10) % 10),
               m.i + 2, vx % 10)

RECURSIVE CopyFromRegs(_, _, _, _, _)
\* bytes[at..=at + last].copy_from_slice(&regs[0..=last]), from register k on
CopyFromRegs(bytes, at, regs, k, last) ==
    IF k > last THEN bytes
    ELSE CopyFromRegs(ByteSet(bytes, at + k, regs[k]), at, regs, k + 1, last)

\* self.ram[self.i..=self.i + x] panics unless i + x < RAM_SIZE
set_index_reg(m) ==
    LET rx == x(m.instruction)
    IN  IF ~SliceOk(m.i, m.i + rx + 1) THEN Panic(m)
        ELSE [m EXCEPT !.ram = CopyFromRegs(m.ram, m.i, m.v, 0, rx),
                       !.i = m.i + rx + 1]

\* a load that stops before Vx
set_reg_index_exclusive(m) ==
    LET rx == x(m.instruction)
    IN  IF ~SliceOk(m.i, m.i + rx + 1) THEN Panic(m)
        ELSE [m EXCEPT !.v = [reg \in DOMAIN m.v |->
                                 IF reg < rx THEN ByteAt(m.ram, m.i + reg) ELSE m.v[reg]],
                       !.i = m.i + rx + 1]


\* set_reg_index copying in the direction of set_index_reg: registers to RAM
set_reg_index_storing(m) == set_index_reg(m)

set_reg_index(m) ==
    LET rx == x(m.instruction)
    IN  IF ~SliceOk(m.i, m.i + rx + 1) THEN Panic(m)
        ELSE [m EXCEPT !.v = [reg \in DOMAIN m.v |->
                                 IF reg <= rx THEN ByteAt(m.ram, m.i + reg) ELSE m.v[reg]],
                       !.i = m.i + rx + 1]

----------------------------------------------------------------------------
(* decode_execute: the match over the four nibbles.  The arms are tried in *)
(* order and the first that matches is taken.                              *)

\* the wildcard `_` of a pattern
Any == -1

\* the arms of the match, in source order (the final `_` arm is the default)
Patterns ==
    << <<0, 0, 0, 0>>,        \*  1  ()
       <<0, 0, 14, 0>>,       \*  2  clear_screen
       <<0, 0, 14, 14>>,      \*  3  subroutine_return
       <<1, Any, Any, Any>>,  \*  4  jump_addr
       <<2, Any, Any, Any>>,  \*  5  call_subroutine
       <<3, Any, Any, Any>>,  \*  6  skip_eq_byte
       <<4, Any, Any, Any>>,  \*  7  skip_not_byte
       <<5, Any, Any, 0>>,    \*  8  skip_eq_reg
       <<6, Any, Any, Any>>,  \*  9  set_reg_byte
       <<7, Any, Any, Any>>,  \* 10  add_byte
       <<8, Any, Any, 0>>,    \* 11  set_reg_reg
       <<8, Any, Any, 1>>,    \* 12  or_reg
       <<8, Any, Any, 2>>,    \* 13  and_reg
       <<8, Any, Any, 3>>,    \* 14  xor_reg
       <<8, Any, Any, 4>>,    \* 15  add_reg
       <<8, Any, Any, 5>>,    \* 16  sub_reg
       <<8, Any, Any, 6>>,    \* 17  shr_reg
       <<8, Any, Any, 7>>,    \* 18  rev_sub_reg
       <<8, Any, Any, 14>>,   \* 19  shl_reg
       <<9, Any, Any, 0>>,    \* 20  skip_not_reg
       <<10, Any, Any, Any>>, \* 21  set_index_addr
       <<11, Any, Any, Any>>, \* 22  jump_add_addr
       <<12, Any, Any, Any>>, \* 23  rand_and_byte
       <<13, Any, Any, Any>>, \* 24  draw_sprite
       <<14, Any, 9, 14>>,    \* 25  skip_eq_key
       <<14, Any, 10, 1>>,    \* 26  skip_not_key
       <<15, Any, 0, 7>>,     \* 27  set_reg_delay
       <<15, Any, 0, 10>>,    \* 28  set_reg_key
       <<15, Any, 1, 5>>,     \* 29  set_delay_reg
       <<15, Any, 1, 8>>,     \* 30  set_sound_reg
       <<15, Any, 1, 14>>,    \* 31  add_index_reg
       <<15, Any, 2, 9>>,     \* 32  set_index_char
       <<15, Any, 3, 3>>,     \* 33  set_index_bcd
       <<15, Any, 5, 5>>,     \* 34  set_index_reg
       <<15, Any, 6, 5>>      \* 35  set_reg_index
    >>

\* a match that compares the first three nibbles only
Matches_three_nibbles(pat, nib) ==
    \A k \in 1 .. 3 : pat[k] = Any \/ pat[k] = nib[k]

\* the nibbles nib match the pattern pat
Matches(pat, nib) == \A k \in 1 .. 4 : pat[k] = Any \/ pat[k] = nib[k]

\* the arms that match an opcode
MatchingArms(raw) ==
    LET nib == nibbles(raw)
    IN  {a \in 1 .. Len(Patterns) : Matches(Patterns[a], nib)}

RECURSIVE FirstMatch(_, _)
\* the first arm from arm a on that matches the nibbles nib, 0 if none does
FirstMatch(nib, a) ==
    IF a > Len(Patterns) THEN 0
    ELSE IF Matches(Patterns[a], nib) THEN a
    ELSE FirstMatch(nib, a + 1)

\* the arm the match takes: the first that matches, 0 for the default arm
Arm(raw) == FirstMatch(nibbles(raw), 1)

\* the body of the arm taken, applied to the engine
Execute(m, arm, rnd) ==
    CASE arm = 1  -> m
      [] arm = 2  -> clear_screen(m)
      [] arm = 3  -> subroutine_return(m)
      [] arm = 4  -> jump_addr(m)
      [] arm = 5  -> call_subroutine(m)
      [] arm = 6  -> skip_eq_byte(m)
      [] arm = 7  -> skip_not_byte(m)
      [] arm = 8  -> skip_eq_reg(m)
      [] arm = 9  -> set_reg_byte(m)
      [] arm = 10 -> add_byte(m)
      [] arm = 11 -> set_reg_reg(m)
      [] arm = 12 -> or_reg(m)
      [] arm = 13 -> and_reg(m)
      [] arm = 14 -> xor_reg(m)
      [] arm = 15 -> add_reg(m)
      [] arm = 16 -> sub_reg(m)
      [] arm = 17 -> shr_reg(m)
      [] arm = 18 -> rev_sub_reg(m)
      [] arm = 19 -> shl_reg(m)
      [] arm = 20 -> skip_not_reg(m)
      [] arm = 21 -> set_index_addr(m)
      [] arm = 22 -> jump_add_addr(m)
      [] arm = 23 -> rand_and_byte(m, rnd)
      [] arm = 24 -> draw_sprite(m)
      [] arm = 25 -> skip_eq_key(m)
      [] arm = 26 -> skip_not_key(m)
      [] arm = 27 -> set_reg_delay(m)
      [] arm = 28 -> set_reg_key(m)
      [] arm = 29 -> set_delay_reg(m)
      [] arm = 30 -> set_sound_reg(m)
      [] arm = 31 -> add_index_reg(m)
      [] arm = 32 -> set_index_char(m)
      [] arm = 33 -> set_index_bcd(m)
      [] arm = 34 -> set_index_reg(m)
      [] arm = 35 -> set_reg_index(m)
      [] OTHER    -> m

\* only clear_screen asks for a redraw
RedrawArms_clear_only == {2}

\* the arms that `return Ok(true)`
RedrawArms == {2, 24}

\* what the pc reported by UnknownInstruction is: self.pc as decode_execute
\* finds it
UnknownPc(m) == m.pc

\* a decode that steps pc back onto an opcode it does not know
decode_execute_rewinding(m, rnd) ==
    LET arm   == Arm(m.instruction)
        after == Execute(m, arm, rnd)
    IN  IF arm = 0
        THEN [chip8 |-> [m EXCEPT !.pc = m.pc - 2],
              ret   |-> "unknown",
              err   |-> <<m.instruction, UnknownPc(m)>>]
        ELSE IF after.panicked
        THEN [chip8 |-> after, ret |-> "panic", err |-> <<>>]
        ELSE [chip8 |-> after,
              ret   |-> IF arm \in {2, 24} THEN "true" ELSE "false",
              err   |-> <<>>]

\* decode_execute gives [chip8 |-> the engine afterwards,
\*                       ret   |-> "true" / "false" for Ok(bool), "unknown" for
\*                                 Err(UnknownInstruction(..)), "panic",
\*                       err   |-> <<opcode, pc>> of the error, else <<>>]
decode_execute(m, rnd) ==
    LET arm   == Arm(m.instruction)
        after == Execute(m, arm, rnd)
    IN  IF arm = 0
        THEN [chip8 |-> m, ret |-> "unknown", err |-> <<m.instruction, UnknownPc(m)>>]
        ELSE IF after.panicked
        THEN [chip8 |-> after, ret |-> "panic", err |-> <<>>]
        ELSE [chip8 |-> after,
              ret   |-> IF arm \in RedrawArms THEN "true" ELSE "false",
              err   |-> <<>>]


\* the fetched instruction installed without `self.keys = keys`: the engine
\* goes on with the keys it had
Fetched_stale_keys(m, ks, raw) == [m EXCEPT !.instruction = raw, !.pc = m.pc + 2]

\* the engine with the fetched instruction installed: self.keys = keys;
\* self.instruction = instruction; self.pc += 2
Fetched(m, ks, raw) == [m EXCEPT !.keys = ks, !.instruction = raw, !.pc = m.pc + 2]

\* the bool of the Ok value: self.st > 0
Beep(m) == m.st > 0

\* instruction_cycle(keys) gives [chip8 |-> the engine afterwards,
\*    res |-> [kind   |-> "Ok" / "NoMoreInstructions" / "UnknownInstruction" /
\*                        "Panic",
\*             screen |-> the Option<Screen> of an Ok value, else None,
\*             beep   |-> the bool of an Ok value, else FALSE,
\*             err    |-> the fields of the error, else <<>>]]
\* elapsed: self.last_decrement.elapsed() >= 1/60 s;  rnd: the random byte
instruction_cycle(m, ks, elapsed, rnd) ==
    LET ticked  == decrement_timers(m, elapsed)
        fetched == fetch_instruction(ticked)
    IN  IF fetched = None
        THEN [chip8 |-> ticked,
              res   |-> [kind |-> "NoMoreInstructions", screen |-> None,
                         beep |-> FALSE, err |-> <<>>]]
        ELSE LET done == decode_execute(Fetched(ticked, ks, Unwrap(fetched)), rnd)
             IN  CASE done.ret = "unknown" ->
                        [chip8 |-> done.chip8,
                         res   |-> [kind |-> "UnknownInstruction", screen |-> None,
                                    beep |-> FALSE, err |-> done.err]]
                   [] done.ret = "panic" ->
                        [chip8 |-> done.chip8,
                         res   |-> [kind |-> "Panic", screen |-> None,
                                    beep |-> FALSE, err |-> <<>>]]
                   [] done.ret = "true" ->
                        [chip8 |-> done.chip8,
                         res   |-> [kind |-> "Ok", screen |-> Some(done.chip8.screen),
                                    beep |-> Beep(done.chip8), err |-> <<>>]]
                   [] OTHER ->
                        [chip8 |-> done.chip8,
                         res   |-> [kind |-> "Ok", screen |-> None,
                                    beep |-> Beep(done.chip8), err |-> <<>>]]

----------------------------------------------------------------------------
(* Chip8::new as a whole, and the ROMs the runs start from. *)

\* what stands for the engine when Chip8::new gave none
NoChip8 ==
    [ram |-> <<>>, v |-> <<>>, i |-> 0, pc |-> 0, dt |-> 0, st |-> 0,
     stack |-> <<>>, instruction |-> 0, keys |-> Keys_new, screen |-> {},
     panicked |-> FALSE]

\* Chip8::new(rom) gives [chip8, res]; res.kind is "Created" for Ok,
\* "RomTooBig" for Err(RomTooBig(exceed)) and "NewPanic" when the subtraction
\* that computes exceed panics
Chip8_new(bytes) ==
    IF RomTooBig(bytes)
    THEN IF ExceedUnderflows(bytes) /\ overflow_checks
         THEN [chip8 |-> NoChip8,
               res   |-> [kind |-> "NewPanic", screen |-> None, beep |-> FALSE,
                          err |-> <<>>]]
         ELSE [chip8 |-> NoChip8,
               res   |-> [kind |-> "RomTooBig", screen |-> None, beep |-> FALSE,
                          err |-> <<Exceed(bytes)>>]]
    ELSE [chip8 |-> Constructed(bytes),
          res   |-> [kind |-> "Created", screen |-> None, beep |-> FALSE,
                     err |-> <<>>]]

\* the bytes of a program given as a sequence of opcodes (big-endian)
RomOf(prog) ==
    [k \in 1 .. 2 * Len(prog) |->
        IF k % 2 = 1 THEN prog[(k + 1) \div 2] \div 256 ELSE prog[k \div 2] % 256]

\* a ROM of len bytes, each in 0x60 .. 0x6F (every opcode of it is a 6xnn)
Filler(len) == [k \in 1 .. len |-> 96 + (k % 16)]

\* the lengths of the filler ROMs: around the largest ROM that fits
\* (RAM_SIZE - ROM_LOC = 3584) and around RAM_SIZE + ROM_LOC = 4608
FillerLens == {1, 3583, 3584, 3585, 3586, 4095, 4096, 4607, 4608, 4609}

\* the programs of the runs
Programs ==
    { <<>>,
      << \H00E0 >>,
      << \H00EE >>,
      << \H2204, \H0000, \H00EE >>,
      << \HAFFF, \HD001 >>,
      << \HAFFF, \HD002 >>,
      << \HAFFF, \HF033 >>,
      << \HAFFE, \HF155 >>,
      << \HAFFF, \HF165 >>,
      << \H6063, \HF01E, \HD000 >>,
      << \H1FFF >>,
      << \H1FFE >>,
      << \H60FF, \HBFFF >>,
      << \H0123, \H6005 >>,
      << \H8008, \H8008 >>,
      << \H5011, \H9012, \HE000 >>,
      << \HF0FF, \H00E0 >>,
      << \H6003, \HF018, \H0000 >>,
      << \H6102, \HF115, \HF207 >>,
      << \HF10A, \H6105 >>,
      << \HF10A, \HF20A >>,
      << \H600F, \HE09E, \H1FFF, \H00E0 >>,
      << \H600E, \HE0A1, \H1FFF, \H00E0 >>,
      << \H6010, \HE09E >>,
      << \H60FF, \HE0A1 >>,
      << \HD005, \HD005 >>,
      << \HD000 >>,
      << \HC003 >>,
      << \H60FF, \H6101, \H8014 >>
    }

Roms == {RomOf(prog) : prog \in Programs} \cup {Filler(len) : len \in FillerLens}

----------------------------------------------------------------------------
(* biscuit8-pixels/src/main.rs: the key mapping of the frontend. *)

qwerty_character_to_key(character) ==
    CASE character = "1" -> Some(1)
      [] character = "2" -> Some(2)
      [] character = "3" -> Some(3)
      [] character = "4" -> Some(12)
      [] character = "q" -> Some(4)
      [] character = "w" -> Some(5)
      [] character = "e" -> Some(6)
      [] character = "r" -> Some(13)
      [] character = "a" -> Some(7)
      [] character = "s" -> Some(8)
      [] character = "d" -> Some(9)
      [] character = "f" -> Some(14)
      [] character = "z" -> Some(10)
      [] character = "x" -> Some(0)
      [] character = "c" -> Some(11)
      [] character = "v" -> Some(15)
      [] OTHER -> None

colemak_character_to_key(character) ==
    CASE character = "1" -> Some(1)
      [] character = "2" -> Some(2)
      [] character = "3" -> Some(3)
      [] character = "4" -> Some(12)
      [] character = "q" -> Some(4)
      [] character = "w" -> Some(5)
      [] character = "f" -> Some(6)
      [] character = "p" -> Some(13)
      [] character = "a" -> Some(7)
      [] character = "r" -> Some(8)
      [] character = "s" -> Some(9)
      [] character = "t" -> Some(14)
      [] character = "z" -> Some(10)
      [] character = "x" -> Some(0)
      [] character = "c" -> Some(11)
      [] character = "v" -> Some(15)
      [] OTHER -> None

\* the `match self.layout` of key_handler
CharacterToKey(lay, character) ==
    IF lay = "Qwerty" THEN qwerty_character_to_key(character)
    ELSE colemak_character_to_key(character)

Layouts == {"Qwerty", "Colemak"}

\* the keys of the key events
KeyPool == {14, 15}

\* the characters of the keyboard events of a run with layout lay: those that
\* give a key of KeyPool, and one ("Q") that gives no key
Characters(lay) ==
    {character \in {"1", "2", "3", "4", "q", "w", "e", "r", "a", "s", "d", "f",
                    "z", "x", "c", "v", "p", "t"} :
        \E key \in KeyPool : CharacterToKey(lay, character) = Some(key)}
    \cup {"Q"}

----------------------------------------------------------------------------
(* The runs. *)

\* Chip8::new gave an engine and no call has panicked
Alive == result.kind \in {"Created", "Ok", "NoMoreInstructions", "UnknownInstruction"}

\* the random byte is drawn only by rand_and_byte
RndChoices(m) ==
    IF ByteAt(m.ram, m.pc) \div 16 = 12 THEN RngU8 ELSE {0}

\* a run starts with Chip8::new(rom) for a ROM of roms, Keys::new() and a
\* layout of lays, in a build whose overflow checks are one of profiles
InitWith(roms, lays, profiles) ==
    /\ rom \in roms
    /\ overflow_checks \in profiles
    /\ layout \in lays
    /\ \E made \in {Chip8_new(rom)} :
          /\ chip8 = made.chip8
          /\ result = made.res
    /\ keys = Keys_new
    /\ cycles = 0
    /\ exited = FALSE
    /\ pending = None
    /\ held = {}
    /\ since_decrement = 0

(* A caller of the library: it may call the methods of its Keys and        *)
(* instruction_cycle in any order, and may go on after an error.           *)

\* the result of a run whose caller panicked in a method of Keys
CallerPanic == [kind |-> "Panic", screen |-> None, beep |-> FALSE, err |-> <<>>]

PressKey(key) ==
    /\ Alive
    /\ IF ShiftPanics(key)
       THEN /\ result' = CallerPanic
            /\ UNCHANGED <<keys, pending, held>>
       ELSE /\ keys' = press_key(keys, key)
            /\ pending' = Some(key)
            /\ held' = held \cup {key}
            /\ UNCHANGED result
    /\ UNCHANGED <<rom, overflow_checks, chip8, cycles, layout, exited,
                   since_decrement>>

ReleaseKey(key) ==
    /\ Alive
    /\ IF ShiftPanics(key)
       THEN /\ result' = CallerPanic
            /\ UNCHANGED <<keys, held>>
       ELSE /\ keys' = release_key(keys, key)
            /\ held' = held \ {key}
            /\ UNCHANGED result
    /\ UNCHANGED <<rom, overflow_checks, chip8, cycles, layout, exited,
                   pending, since_decrement>>

ResetLastPressed ==
    /\ Alive
    /\ keys' = reset_last_pressed(keys)
    /\ pending' = None
    /\ UNCHANGED <<rom, overflow_checks, chip8, result, cycles, layout, exited,
                   held, since_decrement>>

\* a call of instruction_cycle(keys), one of at most `limit` of the run, made
\* `waited` nanoseconds after the step before it, for a waited of waits, whose
\* random byte, if drawn, is in rnds; the timer step restarts the measured
\* time when the period has elapsed
CycleWithin(limit, rnds, waits) ==
    /\ Alive
    /\ cycles < limit
    /\ \E waited \in waits, rnd \in rnds :
          \E at \in {since_decrement + waited} :
             \E out \in {instruction_cycle(chip8, keys, Elapsed(at), rnd)} :
                /\ chip8' = out.chip8
                /\ result' = out.res
                /\ since_decrement' = IF Elapsed(at) THEN 0 ELSE at
    /\ cycles' = cycles + 1
    /\ pending' = None
    /\ UNCHANGED <<rom, overflow_checks, keys, layout, exited, held>>

CycleAfter(rnds, waits) == CycleWithin(MaxCycles, rnds, waits)

\* the waits of a caller that calls either at once or a timer period later
CallerWaits == {0, Period}

CycleWith(rnds) == CycleAfter(rnds, CallerWaits)

Cycle == CycleWith(RndChoices(chip8))

Init == InitWith(Roms, {"Qwerty"}, BOOLEAN)

Next ==
    \/ \E key \in KeyPool : PressKey(key)
    \/ \E key \in KeyPool : ReleaseKey(key)
    \/ ResetLastPressed
    \/ Cycle

Spec == Init /\ [][Next]_vars

(* The biscuit8-pixels frontend: keyboard events go through key_handler,   *)
(* the other window events through window_event_handler, and every         *)
(* AboutToWait event runs PixelsFrontend::instruction_cycle.  An Err of a  *)
(* handler makes main_loop call elwt.exit().                               *)

\* key_handler for the event of a character key; pressed is
\* key_event.state.is_pressed()
KeyHandler(character, pressed) ==
    /\ Alive
    /\ ~exited
    /\ LET key == CharacterToKey(layout, character)
       IN  IF key = None
           THEN UNCHANGED <<keys, pending, held>>
           ELSE IF ShiftPanics(Unwrap(key))
           THEN UNCHANGED <<keys, pending, held>>
           ELSE IF pressed
           THEN /\ keys' = press_key(keys, Unwrap(key))
                /\ pending' = key
                /\ held' = held \cup {Unwrap(key)}
           ELSE /\ keys' = release_key(keys, Unwrap(key))
                /\ held' = held \ {Unwrap(key)}
                /\ UNCHANGED pending
    /\ result' = IF CharacterToKey(layout, character) # None
                    /\ ShiftPanics(Unwrap(CharacterToKey(layout, character)))
                 THEN CallerPanic ELSE result
    /\ UNCHANGED <<rom, overflow_checks, chip8, cycles, layout, exited,
                   since_decrement>>

\* the window events that are not keyboard input; "Focused" stands for the
\* events of the `_ => ()` arm
WindowEvents ==
    {"Resized", "CloseRequested", "ScaleFactorChanged", "RedrawRequested", "Focused"}

\* the window events whose arm calls pixels (resize_surface, render) and
\* leaves through `?` when the call fails
PixelsEvents == {"Resized", "ScaleFactorChanged", "RedrawRequested"}

\* window_event_handler for an event of WindowEvents; failed is whether the
\* call of pixels, if the arm makes one, returned an Err.  An Err (also the
\* WindowClose of CloseRequested) goes to main_loop, which exits the loop
WindowEventHandler(event, failed) ==
    /\ Alive
    /\ ~exited
    /\ exited' = (event = "CloseRequested" \/ (event \in PixelsEvents /\ failed))
    /\ UNCHANGED <<rom, overflow_checks, chip8, keys, result, cycles, layout,
                   pending, held, since_decrement>>


\* a driver that reports the error of a cycle and stays in its event loop
FrontendCycle_going_on ==
    /\ Alive
    /\ cycles < MaxCycles
    /\ \E waited \in CallerWaits, rnd \in RndChoices(chip8) :
          \E at \in {since_decrement + waited} :
             \E out \in {instruction_cycle(chip8, keys, Elapsed(at), rnd)} :
                /\ chip8' = out.chip8
                /\ result' = out.res
                /\ since_decrement' = IF Elapsed(at) THEN 0 ELSE at
                /\ keys' = IF out.res.kind = "Ok" THEN reset_last_pressed(keys) ELSE keys
    /\ exited' = FALSE
    /\ cycles' = cycles + 1
    /\ pending' = None
    /\ UNCHANGED <<rom, overflow_checks, layout, held>>

\* PixelsFrontend::instruction_cycle: an Err leaves through `?` before
\* reset_last_pressed, and main_loop then exits the event loop
FrontendCycle ==
    /\ Alive
    /\ ~exited
    /\ cycles < MaxCycles
    /\ \E waited \in CallerWaits, rnd \in RndChoices(chip8) :
          \E at \in {since_decrement + waited} :
             \E out \in {instruction_cycle(chip8, keys, Elapsed(at), rnd)} :
                /\ chip8' = out.chip8
                /\ result' = out.res
                /\ since_decrement' = IF Elapsed(at) THEN 0 ELSE at
                /\ keys' = IF out.res.kind = "Ok" THEN reset_last_pressed(keys) ELSE keys
                /\ exited' = (out.res.kind \in {"NoMoreInstructions", "UnknownInstruction"})
    /\ cycles' = cycles + 1
    /\ pending' = None
    /\ UNCHANGED <<rom, overflow_checks, layout, held>>

\* the programs run in the frontend
PixelsPrograms ==
    { << \H00E0 >>,
      << \H00EE >>,
      << \H1FFF >>,
      << \H0123, \H6005 >>,
      << \H6003, \HF018, \H0000 >>,
      << \HF10A, \H6105 >>,
      << \HF10A, \HF20A >>,
      << \H600F, \HE09E, \H1FFF, \H00E0 >>,
      << \H600E, \HE0A1, \H1FFF, \H00E0 >>,
      << \H6010, \HE09E >>
    }

InitPixels == InitWith({RomOf(prog) : prog \in PixelsPrograms}, Layouts, BOOLEAN)

NextPixels ==
    \/ \E character \in Characters(layout), pressed \in BOOLEAN : KeyHandler(character, pressed)
    \/ \E event \in WindowEvents, failed \in BOOLEAN : WindowEventHandler(event, failed)
    \/ FrontendCycle

SpecPixels == InitPixels /\ [][NextPixels]_vars

(* Decoding: every 16-bit opcode as the first instruction of a ROM, and    *)
(* the first instruction cycle of the engine built from it.                *)

Opcodes == 0 .. 65535

\* the random bytes tried in the decoding runs: the ends of RngU8
DecodeRnds == {rnd \in RngU8 : rnd = 0 \/ rnd + 1 \notin RngU8}

InitDecode == InitWith({RomOf(<<raw>>) : raw \in Opcodes}, {"Qwerty"}, {TRUE})

FirstCycle ==
    /\ cycles = 0
    /\ CycleWith(RndChoices(chip8) \cap DecodeRnds)

SpecDecode == InitDecode /\ [][FirstCycle]_vars

----------------------------------------------------------------------------
(* A caller under a wall clock: time passes between its calls of           *)
(* instruction_cycle, in steps of half a timer period.                     *)


----------------------------------------------------------------------------
(* Chip8::new on every ROM of Roms, followed by at most one cycle. *)

SpecNew == Init /\ [][FirstCycle]_vars

Tick == Period \div 2

\* Tick nanoseconds pass and nothing is called
Wait ==
    /\ Alive
    /\ since_decrement < MaxWaits * Tick
    /\ since_decrement' = since_decrement + Tick
    /\ UNCHANGED <<rom, overflow_checks, chip8, keys, result, cycles, layout,
                   exited, pending, held>>

\* a call of instruction_cycle at the present time
TimedCycle == CycleAfter(RndChoices(chip8), {0})

\* programs that set the timers and then spin
TimerPrograms ==
    { << \H6003, \HF015, \H1204 >>,
      << \H6002, \HF018, \H1204 >>,
      << \H6001, \HF015, \HF018, \H1206 >>,
      << \H60FF, \HF015, \HF107, \H1206 >>
    }

InitTimers == InitWith({RomOf(prog) : prog \in TimerPrograms}, {"Qwerty"}, BOOLEAN)

NextTimers ==
    \/ Wait
    \/ TimedCycle

SpecTimers == InitTimers /\ [][NextTimers]_vars

----------------------------------------------------------------------------
(* Long runs of programs that call and return. *)

CallPrograms ==
    { << \H2200 >>,                                   \* calls itself for ever
      << \H2204, \H00EE, \H2200 >>,                   \* two calls in turn
      \* 200: call 206   202: call 206   204: spin
      \* 206: call 20A   208: return     20A: return
      << \H2206, \H2206, \H1204, \H220A, \H00EE, \H00EE >>,
      \* 200: V0 = 1   202: call 208   204: V0 += 2   206: spin
      \* 208: V0 += 1  20A: return
      << \H6001, \H2208, \H7002, \H1206, \H7001, \H00EE >>,
      << \H2202, \H00EE, \H00EE >>,                   \* a return too many
      << \H2FFE >>                                    \* a call next to the end of RAM
    }

InitCalls == InitWith({RomOf(prog) : prog \in CallPrograms}, {"Qwerty"}, BOOLEAN)

CallCycle == CycleWithin(MaxCallCycles, RndChoices(chip8), CallerWaits)

SpecCalls == InitCalls /\ [][CallCycle]_vars

----------------------------------------------------------------------------
(* Runs of the register opcodes 8xy1 .. 8xyE and of Dxyn on loaded         *)
(* registers: VF is loaded with 0xAA, Vx and Vy with two operands, and the *)
(* opcode follows.                                                         *)

\* the opcode with the nibbles high, rx, ry, low
OpWord(high, rx, ry, low) == 4096 * high + 256 * rx + 16 * ry + low

\* 6xkk
LoadWord(rx, kk) == 24576 + 256 * rx + kk

Operands == {0, 1, 2, 127, 128, 129, 254, 255}

RegPairs == { <<1, 2>>, <<2, 1>>, <<1, 1>>, <<15, 1>>, <<1, 15>>, <<15, 15>>, <<0, 14>> }

\* the last nibbles of 8xy1 .. 8xyE
AluOps == {1, 2, 3, 4, 5, 6, 7, 14}

AluPrograms ==
    { << LoadWord(15, 170), LoadWord(rp[1], a), LoadWord(rp[2], b),
         OpWord(8, rp[1], rp[2], k) >> :
         rp \in RegPairs, a \in Operands, b \in Operands, k \in AluOps }
    \cup
    { << LoadWord(15, 170), LoadWord(rp[1], a), LoadWord(rp[2], b),
         OpWord(13, rp[1], rp[2], 5) >> :
         rp \in RegPairs, a \in Operands, b \in Operands }
    \cup
    \* the same sprite drawn twice: the second draw erases it
    { << LoadWord(15, 170), OpWord(13, rp[1], rp[2], 5), OpWord(13, rp[1], rp[2], 5) >> :
         rp \in RegPairs }

InitAlu == InitWith({RomOf(prog) : prog \in AluPrograms}, {"Qwerty"}, BOOLEAN)

SpecAlu == InitAlu /\ [][Cycle]_vars

----------------------------------------------------------------------------
(* Runs of programs that draw a sprite of their own at (0, 0) and then     *)
(* again at a position they load.                                          *)

\* sprite data, as the words that follow the program in the ROM
SpriteData ==
    { << \HFF81, \H3CA5, \H5A0F, \HF001, \H8018, \HE733, \HCC55, \HAA00 >>,
      << \H01FF, \H8000, \HFFFF, \H0180, \H7E7E, \H0000, \H1234, \HFE00 >> }

DrawColumns == {0, 3, 60, 63, 64, 124, 255}

DrawLines == {0, 1, 30, 31, 32, 255}

DrawHeights == {0, 1, 3, 15}

\* the registers that hold the position: V0 / V1, VF / V1, V0 / VF
DrawRegs == { <<0, 1>>, <<15, 1>>, <<0, 15>> }

\* 200: I = 0x20C   202: draw   204: Vx = col   206: Vy = line   208: draw
\* 20A: spin        20C: the sprite data
DrawPrograms ==
    { << \HA20C, OpWord(13, rp[1], rp[2], height), LoadWord(rp[1], col),
         LoadWord(rp[2], line), OpWord(13, rp[1], rp[2], height), \H120A >> \o data :
         rp \in DrawRegs, col \in DrawColumns, line \in DrawLines,
         height \in DrawHeights, data \in SpriteData }

InitDraw == InitWith({RomOf(prog) : prog \in DrawPrograms}, {"Qwerty"}, BOOLEAN)

DrawCycle == CycleWithin(MaxDrawCycles, RndChoices(chip8), CallerWaits)

SpecDraw == InitDraw /\ [][DrawCycle]_vars

----------------------------------------------------------------------------
(* Runs of programs that store V0..Vx with Fx55, overwrite V0 and V2, and  *)
(* load V0..Vx back with Fx65 from the same address.                       *)


----------------------------------------------------------------------------
(* Runs that draw a background of 15 sprite rows at (0, 0) and then the    *)
(* same Dxyn twice.                                                        *)

\* 200: I = 0x20E   202: background   204: Vx = col   206: Vy = line
\* 208: draw        20A: draw again   20C: spin       20E: the sprite data
RedrawPrograms ==
    { << \HA20E, \HD23F, LoadWord(rp[1], col), LoadWord(rp[2], line),
         OpWord(13, rp[1], rp[2], height), OpWord(13, rp[1], rp[2], height),
         \H120C >> \o data :
         rp \in DrawRegs, col \in DrawColumns, line \in DrawLines,
         height \in DrawHeights, data \in SpriteData }

InitRedraw == InitWith({RomOf(prog) : prog \in RedrawPrograms}, {"Qwerty"}, BOOLEAN)

SpecRedraw == InitRedraw /\ [][DrawCycle]_vars


----------------------------------------------------------------------------
(* Runs to the end of RAM: programs without a jump, call or return that is *)
(* executed, followed by the zero bytes that Chip8::new left after the ROM. *)

RunPrograms ==
    { <<>>,                                   \* the empty ROM
      << \H6001, \H7001, \H00E0 >>,
      \* 200: V0 = 5   202: skip if V0 = 5   204: spin (skipped)   206: V0 += 1
      << \H6005, \H3005, \H1204, \H7001 >>,
      << \HAFFF, \HD001 >>,                   \* a sprite in the last byte of RAM
      << \HAFFF, \HD002 >>,                   \* a sprite that ends beyond RAM
      << \H6010, \HE09E >> }                  \* a query of key 0x10

InitRun == InitWith({RomOf(prog) : prog \in RunPrograms}, {"Qwerty"}, BOOLEAN)

RunCycle == CycleWithin(MaxRunCycles, RndChoices(chip8), CallerWaits)

SpecRun == InitRun /\ [][RunCycle]_vars

StoredBytes == {0, 17, 255}

StoreAddresses == {0, \H300, \HFF0, \HFFD, \HFFF}

StoreLasts == {0, 1, 2, 15}

\* 200: V0 = a   202: V2 = b   204: I = addr   206: Fx55
\* 208: V0 = FF  20A: V2 = EE  20C: I = addr   20E: Fx65
MemPrograms ==
    { << LoadWord(0, a), LoadWord(2, b), OpWord(10, 0, 0, 0) + addr,
         OpWord(15, rx, 5, 5), \H60FF, \H62EE, OpWord(10, 0, 0, 0) + addr,
         OpWord(15, rx, 6, 5) >> :
         a \in StoredBytes, b \in StoredBytes, addr \in StoreAddresses,
         rx \in StoreLasts }

InitMem == InitWith({RomOf(prog) : prog \in MemPrograms}, {"Qwerty"}, BOOLEAN)

MemCycle == CycleWithin(MaxMemCycles, RndChoices(chip8), CallerWaits)

SpecMem == InitMem /\ [][MemCycle]_vars

----------------------------------------------------------------------------
(* Vocabulary of the properties. *)


----------------------------------------------------------------------------
(* The index register: Annn, a load of Vx, then one of Fx1E, Fx29, Fx55,  *)
(* Fx65.                                                                   *)

IndexAddresses == {0, 3840, 4095}

IndexOperands == {0, 5, 255}

IndexRegs == {0, 2}

\* the low bytes of Fx1E, Fx29, Fx55 and Fx65
IndexOps == {30, 41, 85, 101}

IndexPrograms ==
    { << OpWord(10, 0, 0, 0) + addr, LoadWord(rx, a),
         OpWord(15, rx, kk \div 16, kk % 16) >> :
         addr \in IndexAddresses, a \in IndexOperands, rx \in IndexRegs,
         kk \in IndexOps }

InitIndex == InitWith({RomOf(prog) : prog \in IndexPrograms}, {"Qwerty"}, BOOLEAN)

SpecIndex == InitIndex /\ [][Cycle]_vars

----------------------------------------------------------------------------


----------------------------------------------------------------------------
(* Loads followed by one of 3xnn, 4xnn, 5xy0, 9xy0, 1nnn, Bnnn or 7xnn.    *)

StepOperands == {0, 1, 255}

StepRegPairs == { <<1, 2>>, <<15, 0>>, <<3, 3>> }

\* the first nibbles of 3xnn, 4xnn, 5xy0 and 9xy0
SkipOps == {3, 4, 5, 9}

\* the word of the skip opcode high on Vx, against Vy or the byte kk
SkipWord(high, rx, ry, kk) ==
    IF high \in {3, 4} THEN OpWord(high, rx, kk \div 16, kk % 16)
    ELSE OpWord(high, rx, ry, 0)

\* the first nibbles of 1nnn and Bnnn
JumpOps == {1, 11}

JumpTargets == {514, 3840, 4095}

AddRegs == {0, 1, 15}

AddOperands == {0, 1, 128, 255}

StepPrograms ==
    { << LoadWord(pair[1], a), LoadWord(pair[2], b),
         SkipWord(high, pair[1], pair[2], kk) >> :
         a \in StepOperands, b \in StepOperands, kk \in StepOperands,
         pair \in StepRegPairs, high \in SkipOps }
    \cup
    { << LoadWord(0, a), OpWord(high, 0, 0, 0) + addr >> :
         a \in StepOperands, high \in JumpOps, addr \in JumpTargets }
    \cup
    { << \H6FAA, LoadWord(rx, a), OpWord(7, rx, b \div 16, b % 16) >> :
         rx \in AddRegs, a \in AddOperands, b \in AddOperands }

InitStep == InitWith({RomOf(prog) : prog \in StepPrograms}, {"Qwerty"}, BOOLEAN)

SpecStep == InitStep /\ [][Cycle]_vars

----------------------------------------------------------------------------


----------------------------------------------------------------------------
(* A caller that presses and releases keys between its cycles of a program *)
(* that loads Vx and queries the key Vx with Ex9E or ExA1.                 *)

\* the keys of the key events
EventKeys == {3, 15}

\* the values of Vx the key is queried with
QueriedKeys == {0, 3, 15, 16, 19, 255}

\* the low bytes of Ex9E and ExA1
KeyOps == {158, 161}

KeyPrograms ==
    { << LoadWord(1, key), OpWord(14, 1, kk \div 16, kk % 16) >> :
         key \in QueriedKeys, kk \in KeyOps }

InitKeys == InitWith({RomOf(prog) : prog \in KeyPrograms}, {"Qwerty"}, BOOLEAN)

NextKeys ==
    \/ \E key \in EventKeys : PressKey(key)
    \/ \E key \in EventKeys : ReleaseKey(key)
    \/ Cycle

SpecKeys == InitKeys /\ [][NextKeys]_vars

----------------------------------------------------------------------------


----------------------------------------------------------------------------
(* Annn, a load of V3 with each byte, then F333. *)

\* the addresses of the digits: the font, plain RAM, the last three bytes of
\* RAM, and one byte further
BcdAddresses == {0, 768, 4093, 4094}

BcdPrograms ==
    { << OpWord(10, 0, 0, 0) + addr, LoadWord(3, val), \HF333 >> :
         addr \in BcdAddresses, val \in 0 .. 255 }

InitBcd == InitWith({RomOf(prog) : prog \in BcdPrograms}, {"Qwerty"}, BOOLEAN)

SpecBcd == InitBcd /\ [][Cycle]_vars

----------------------------------------------------------------------------


----------------------------------------------------------------------------
(* Cxnn as the first instruction, with every byte the generator can give.  *)

RandRegs == {0, 15}

RandMasks == {0, 15, 170, 255}

RandPrograms ==
    { << OpWord(12, rx, kk \div 16, kk % 16) >> : rx \in RandRegs, kk \in RandMasks }

InitRand == InitWith({RomOf(prog) : prog \in RandPrograms}, {"Qwerty"}, BOOLEAN)

SpecRand == InitRand /\ [][Cycle]_vars

----------------------------------------------------------------------------

\* the step is a call of instruction_cycle
CycleStep == cycles' = cycles + 1

\* the 16-bit word at the program counter (when both of its bytes are in RAM)
WordAtPc(m) == 256 * ByteAt(m.ram, m.pc) + ByteAt(m.ram, m.pc + 1)

\* the two engines agree on V0..VF, I, the stack, RAM and the screen
SameData(m1, m2) ==
    /\ m1.v = m2.v
    /\ m1.i = m2.i
    /\ m1.stack = m2.stack
    /\ m1.ram = m2.ram
    /\ m1.screen = m2.screen

\* the timers of m2 are those of m1, or those of m1 after one regular tick
TimersTickOnly(m1, m2) ==
    \/ m2.dt = m1.dt /\ m2.st = m1.st
    \/ /\ m2.dt = (IF m1.dt > 0 THEN m1.dt - 1 ELSE 0)
       /\ m2.st = (IF m1.st > 0 THEN m1.st - 1 ELSE 0)

----------------------------------------------------------------------------
(* C1: every call of instruction_cycle returns Ok, NoMoreInstructions or   *)
(* UnknownInstruction, and the only abort is 00EE executed with an empty   *)
(* call stack; in particular Dxyn, Fx33, Fx55 and Fx65 never abort,        *)
(* whatever I holds.  The code aborts in other cases (AFFF D002 panics on  *)
(* the sprite slice).                                                      *)
C1_OnlyReturnAborts ==
    result.kind = "Panic" =>
        /\ chip8.instruction = \H00EE /\ chip8.stack = <<>>
        /\ chip8.instruction \div 4096 # 13
        /\ ~(chip8.instruction \div 4096 = 15
             /\ chip8.instruction % 256 \in {\H33, \H55, \H65})

(* C2: Chip8::new succeeds for every ROM of 0..=3584 bytes and returns the *)
(* error RomTooBig, rather than aborting or succeeding, for every longer   *)
(* ROM.  The code panics on 3585 bytes when overflow checks are on.        *)
C2_NewSucceedsOrRomTooBig ==
    /\ Len(rom) <= 3584 => result.kind \notin {"RomTooBig", "NewPanic"}
    /\ Len(rom) > 3584 => result.kind = "RomTooBig"

(* C3: instruction_cycle returns NoMoreInstructions exactly when           *)
(* pc >= 0xFFF at fetch time; such a cycle leaves pc, V0..VF, I, the       *)
(* stack, RAM, the screen and the stored keys unchanged (the timers may    *)
(* tick), and every later cycle returns NoMoreInstructions again.          *)
C3_NoMoreInstructions ==
    [][CycleStep =>
        /\ (result'.kind = "NoMoreInstructions") <=> (chip8.pc >= \HFFF)
        /\ result'.kind = "NoMoreInstructions" =>
              /\ chip8'.pc = chip8.pc
              /\ SameData(chip8, chip8')
              /\ chip8'.keys = chip8.keys
              /\ TimersTickOnly(chip8, chip8')
        /\ result.kind = "NoMoreInstructions" => result'.kind = "NoMoreInstructions"
      ]_vars

\* NoMoreInstructions was returned with pc = 0xFFF (one byte of the word is
\* in RAM) by the third call or later: the call before returned it too
C3_Witness ==
    /\ result.kind = "NoMoreInstructions"
    /\ chip8.pc = \HFFF
    /\ cycles >= 3

\* the opcodes that C4 lists as matching no pattern
ListedUnknown(raw) ==
    LET n1 == raw \div 4096
        n4 == raw % 16
        kk == raw % 256
    IN  \/ n1 = 0 /\ raw \notin {\H0000, \H00E0, \H00EE}
        \/ n1 \in {5, 9} /\ n4 # 0
        \/ n1 = 8 /\ n4 \in (8 .. 13) \cup {15}
        \/ n1 = 14 /\ kk \notin {\H9E, \HA1}
        \/ n1 = 15 /\ kk \notin {\H07, \H0A, \H15, \H18, \H1E, \H29, \H33, \H55, \H65}

(* C4: decoding is a total function of the 16-bit opcode that selects      *)
(* exactly one outcome: an opcode matches at most one of the 35 patterns,  *)
(* and the opcodes that match none are exactly those listed; they yield    *)
(* UnknownInstruction carrying the opcode.                                 *)
C4_DecodeTotal ==
    cycles = 1 =>
        /\ chip8.instruction = 256 * rom[1] + rom[2]
        /\ Len(Patterns) = 35
        /\ Cardinality(MatchingArms(chip8.instruction)) <= 1
        /\ (MatchingArms(chip8.instruction) = {}) <=> ListedUnknown(chip8.instruction)
        /\ (result.kind = "UnknownInstruction") <=> ListedUnknown(chip8.instruction)
        /\ result.kind = "UnknownInstruction" => result.err[1] = chip8.instruction
        /\ result.kind \in {"Ok", "UnknownInstruction", "Panic"}
        /\ result.kind = "Panic" => chip8.instruction = \H00EE

\* an opcode of the 8xy8..8xyF gap was decoded as unknown
C4_Witness ==
    /\ cycles = 1
    /\ chip8.instruction = \H8A2F
    /\ result.kind = "UnknownInstruction"
    /\ result.err[1] = \H8A2F

(* C5: the address carried by UnknownInstruction(opcode, pc) is the RAM    *)
(* address at which the unknown opcode resides: RAM[pc] and RAM[pc+1] read *)
(* big-endian equal the reported opcode.  The code reports the address of  *)
(* the instruction after it.                                               *)
C5_ErrorAddressHoldsOpcode ==
    result.kind = "UnknownInstruction" =>
        /\ result.err[2] + 1 < RAM_SIZE
        /\ 256 * ByteAt(chip8.ram, result.err[2])
             + ByteAt(chip8.ram, result.err[2] + 1) = result.err[1]

(* C6: a cycle that returns UnknownInstruction leaves V0..VF, I, the       *)
(* stack, RAM, the screen and the timers (apart from the regular tick)     *)
(* unchanged and leaves pc advanced by 2 past the unknown opcode, which is *)
(* the word that was at pc; every cycle decodes the word at pc, so the     *)
(* next call executes the instruction that follows.                        *)
C6_UnknownSkips ==
    [][CycleStep =>
        /\ result'.kind = "UnknownInstruction" =>
              /\ SameData(chip8, chip8')
              /\ TimersTickOnly(chip8, chip8')
              /\ chip8'.pc = chip8.pc + 2
              /\ result'.err[1] = WordAtPc(chip8)
        /\ result'.kind \in {"Ok", "UnknownInstruction", "Panic"} =>
              chip8'.instruction = WordAtPc(chip8)
      ]_vars

\* after UnknownInstruction for 0123 the next call executed the 6005 behind it
C6_Witness ==
    /\ rom = RomOf(<< \H0123, \H6005 >>)
    /\ cycles = 2
    /\ result.kind = "Ok"
    /\ chip8.instruction = \H6005
    /\ chip8.v[0] = 5
    /\ chip8.pc = \H204

(* C7: instruction_cycle returns Some(screen) exactly when the executed    *)
(* opcode is 00E0 or Dxyn (also when n = 0) and None otherwise; the screen *)
(* returned is the engine's screen after the opcode (empty after 00E0);    *)
(* the bool is st > 0 after this cycle's timer step and after the opcode,  *)
(* so Fx18 with Vx > 0 reports true in the same cycle.                     *)
C7_CycleOutput ==
    [][(CycleStep /\ result'.kind = "Ok") =>
        /\ (result'.screen # None) <=>
              (chip8'.instruction = \H00E0 \/ chip8'.instruction \div 4096 = 13)
        /\ result'.screen # None => result'.screen = Some(chip8'.screen)
        /\ chip8'.instruction = \H00E0 => result'.screen = Some({})
        /\ result'.beep = (chip8'.st > 0)
        /\ (chip8'.instruction \div 4096 = 15 /\ chip8'.instruction % 256 = \H18) =>
              /\ chip8'.st = chip8.v[(chip8'.instruction \div 256) % 16]
              /\ result'.beep = (chip8.v[(chip8'.instruction \div 256) % 16] > 0)
        /\ ~(chip8'.instruction \div 4096 = 15 /\ chip8'.instruction % 256 = \H18) =>
              chip8'.st \in {chip8.st, chip8.st - 1}
      ]_vars

\* F018 with V0 = 3 has just run: the sound timer was 0 before the cycle and
\* the cycle reports true
C7_Witness ==
    /\ rom = RomOf(<< \H6003, \HF018, \H0000 >>)
    /\ cycles = 2
    /\ chip8.instruction = \HF018
    /\ result.kind = "Ok"
    /\ result.screen = None
    /\ result.beep

(* C8: Fx0A never blocks.  With no last-pressed key in the Keys passed,    *)
(* the cycle returns Ok with pc as before the cycle and V0..VF, I, the     *)
(* stack, RAM and the screen unchanged (timers keep ticking), so the same  *)
(* Fx0A is fetched next; with last_pressed = Some(k) it sets Vx = k and    *)
(* leaves pc advanced by 2.                                                *)
C8_WaitKey ==
    [][(/\ CycleStep
        /\ chip8.pc + 1 < RAM_SIZE
        /\ WordAtPc(chip8) \div 4096 = 15
        /\ WordAtPc(chip8) % 256 = \H0A) =>
        /\ result'.kind = "Ok"
        /\ TimersTickOnly(chip8, chip8')
        /\ keys.last_pressed = None =>
              /\ chip8'.pc = chip8.pc
              /\ SameData(chip8, chip8')
              /\ WordAtPc(chip8') = WordAtPc(chip8)
        /\ keys.last_pressed # None =>
              /\ chip8'.v = [chip8.v EXCEPT ![(WordAtPc(chip8) \div 256) % 16] =
                                keys.last_pressed[1]]
              /\ chip8'.pc = chip8.pc + 2
      ]_vars

\* F10A waited for at least one cycle and then took key 0xF
C8_Witness ==
    /\ rom = RomOf(<< \HF10A, \H6105 >>)
    /\ cycles >= 2
    /\ chip8.instruction = \HF10A
    /\ chip8.pc = \H202
    /\ chip8.v[1] = 15

\* the cycle about to run decodes an opcode of the family Fxkk / Exkk
AtOpcode(m, high, kk) ==
    /\ m.pc + 1 < RAM_SIZE
    /\ WordAtPc(m) \div 4096 = high
    /\ WordAtPc(m) % 256 = kk

\* the register index x of the opcode at pc
XAtPc(m) == (WordAtPc(m) \div 256) % 16

(* C9: in the driver loop every key-press event is presented as            *)
(* last_pressed to exactly one instruction_cycle, the first one after the  *)
(* event (the latest press wins), and the driver's Keys have no            *)
(* last-pressed key after the cycle; a program waiting on Fx0A resumes on  *)
(* the first cycle after a press, and a key that is merely still held      *)
(* after its press was consumed does not resume it.                        *)
C9_PressPresentedOnce ==
    /\ []((Alive /\ ~exited) => keys.last_pressed = pending)
    /\ [][CycleStep =>
            /\ result'.kind # "NoMoreInstructions" => chip8'.keys = keys
            /\ result'.kind = "Ok" => keys'.last_pressed = None
            /\ result'.kind = "Ok" => keys'.raw = keys.raw
            /\ AtOpcode(chip8, 15, \H0A) =>
                  /\ pending # None =>
                        /\ chip8'.pc = chip8.pc + 2
                        /\ chip8'.v[XAtPc(chip8)] = pending[1]
                  /\ pending = None => chip8'.pc = chip8.pc
          ]_vars

\* F10A consumed the press of key 0xF; the key is still held, and the F20A
\* behind it has run without resuming
C9_Witness ==
    /\ rom = RomOf(<< \HF10A, \HF20A >>)
    /\ chip8.v[1] = 15
    /\ chip8.instruction = \HF20A
    /\ chip8.pc = \H202
    /\ result.kind = "Ok"
    /\ key_pressed(chip8.keys, 15)
    /\ chip8.keys.last_pressed = None
    /\ 15 \in held

(* C10: release_key(k) clears only bit k and never changes last_pressed:   *)
(* a key pressed and released between two cycles is still delivered to the *)
(* next cycle's Fx0A as last_pressed = k, while Ex9E (and ExA1) given the  *)
(* same Keys sees key k as not pressed.                                    *)
C10_ReleaseKeepsLastPressed ==
    [][/\ \A key \in 0 .. 15 : key_pressed(keys', key) <=> key \in held'
       /\ (~CycleStep /\ held' # held /\ held' \subseteq held) =>
              /\ keys'.last_pressed = keys.last_pressed
              /\ \E key \in held : keys'.raw = keys.raw - OneShl(key)
       /\ (CycleStep /\ result'.kind # "NoMoreInstructions") =>
              /\ chip8'.keys = keys
              /\ (AtOpcode(chip8, 15, \H0A) /\ pending # None) =>
                    chip8'.v[XAtPc(chip8)] = pending[1]
              /\ (AtOpcode(chip8, 14, \H9E) /\ chip8.v[XAtPc(chip8)] \notin held) =>
                    chip8'.pc = chip8.pc + 2 \/ result'.kind = "Panic"
              /\ (AtOpcode(chip8, 14, \HA1) /\ chip8.v[XAtPc(chip8)] \notin held) =>
                    chip8'.pc = chip8.pc + 4 \/ result'.kind = "Panic"
      ]_vars

\* key 0xF was pressed and released before the cycle: F10A still received it
\* although the Keys it was given show the key as not pressed
C10_Witness ==
    /\ rom = RomOf(<< \HF10A, \H6105 >>)
    /\ chip8.instruction = \HF10A
    /\ chip8.pc = \H202
    /\ chip8.v[1] = 15
    /\ chip8.keys.last_pressed = Some(15)
    /\ ~key_pressed(chip8.keys, 15)

\* the same press-and-release seen by E09E with V0 = 0xF: no skip
C10_WitnessSkip ==
    /\ rom = RomOf(<< \H600F, \HE09E, \H1FFF, \H00E0 >>)
    /\ chip8.instruction = \HE09E
    /\ chip8.pc = \H204
    /\ chip8.keys.last_pressed = Some(15)
    /\ ~key_pressed(chip8.keys, 15)

\* the value of a timer after one regular decrement
Decremented(timer) == IF timer > 0 THEN timer - 1 ELSE 0

(* C11: the timer step at the start of each instruction_cycle: if at least *)
(* 1/60 s has elapsed since the last decrement, each nonzero timer drops   *)
(* by exactly one, a zero timer stays zero, and the decrement time is      *)
(* reset; otherwise the step changes neither timer (nor the decrement      *)
(* time).  So a timer never drops by more than one in a cycle, and cycles  *)
(* that run within one interval cause no decrement however many they are.  *)
(* A timer differs from this only in the cycle whose opcode (Fx15 for dt,  *)
(* Fx18 for st) sets it.                                                   *)
C11_TimerStep ==
    [][CycleStep =>
        /\ chip8'.dt \in 0 .. 255 /\ chip8'.st \in 0 .. 255
        /\ Elapsed(since_decrement) =>
              /\ since_decrement' = 0
              /\ ~AtOpcode(chip8, 15, \H15) => chip8'.dt = Decremented(chip8.dt)
              /\ ~AtOpcode(chip8, 15, \H18) => chip8'.st = Decremented(chip8.st)
        /\ ~Elapsed(since_decrement) =>
              /\ since_decrement' = since_decrement
              /\ ~AtOpcode(chip8, 15, \H15) => chip8'.dt = chip8.dt
              /\ ~AtOpcode(chip8, 15, \H18) => chip8'.st = chip8.st
        /\ ~AtOpcode(chip8, 15, \H15) => chip8'.dt >= chip8.dt - 1
        /\ ~AtOpcode(chip8, 15, \H18) => chip8'.st >= chip8.st - 1
      ]_vars

\* dt was set to 3 by the second cycle; of the two cycles since, one came
\* before the period had elapsed and one after it
C11_Witness ==
    /\ rom = RomOf(<< \H6003, \HF015, \H1204 >>)
    /\ cycles = 4
    /\ chip8.dt = 2
    /\ since_decrement = Tick

(* C12: the timers decay at 60 Hz of wall-clock time whatever the rate at  *)
(* which instruction_cycle is called: a timer counts one step per 1/60 s   *)
(* interval that has elapsed, also when several intervals pass between two *)
(* calls.  The code takes one step per call at most.                       *)
C12_WallClockCadence ==
    [][CycleStep =>
        /\ ~AtOpcode(chip8, 15, \H15) =>
              chip8'.dt = IF chip8.dt > since_decrement \div Period
                          THEN chip8.dt - since_decrement \div Period ELSE 0
        /\ ~AtOpcode(chip8, 15, \H18) =>
              chip8'.st = IF chip8.st > since_decrement \div Period
                          THEN chip8.st - since_decrement \div Period ELSE 0
      ]_vars

(* C13: 2nnn executed at address a pushes a + 2 and sets pc = nnn; 00EE    *)
(* sets pc to the most recently pushed address not yet popped and pops it; *)
(* no other opcode changes the stack.  So the stack holds, in call order,  *)
(* the return addresses of the calls not yet returned from, nested calls   *)
(* return in LIFO order to the instruction after their call, and a call is *)
(* never refused for depth.                                                *)
C13_CallStack ==
    [][(CycleStep /\ chip8.pc + 1 < RAM_SIZE) =>
        /\ WordAtPc(chip8) \div 4096 = 2 =>
              /\ result'.kind = "Ok"
              /\ chip8'.stack = Append(chip8.stack, chip8.pc + 2)
              /\ chip8'.pc = WordAtPc(chip8) % 4096
        /\ (WordAtPc(chip8) = \H00EE /\ chip8.stack # <<>>) =>
              /\ result'.kind = "Ok"
              /\ chip8'.pc = chip8.stack[Len(chip8.stack)]
              /\ chip8'.stack = SubSeq(chip8.stack, 1, Len(chip8.stack) - 1)
        /\ (WordAtPc(chip8) \div 4096 # 2 /\ WordAtPc(chip8) # \H00EE) =>
              chip8'.stack = chip8.stack
      ]_vars

\* seventeen calls deep, beyond the sixteen levels of the original machine
C13_Witness ==
    /\ rom = RomOf(<< \H2204, \H00EE, \H2200 >>)
    /\ Len(chip8.stack) = 17
    /\ chip8.stack[16] = \H206
    /\ chip8.stack[17] = \H202
    /\ result.kind = "Ok"

\* the inner and the outer call of the nested program have both returned, the
\* inner one first
C13_WitnessNested ==
    /\ rom = RomOf(<< \H2206, \H2206, \H1204, \H220A, \H00EE, \H00EE >>)
    /\ cycles = 4
    /\ chip8.pc = \H202
    /\ chip8.stack = <<>>

\* the register index y of the opcode at pc
YAtPc(m) == (WordAtPc(m) \div 16) % 16

\* the cycle about to run decodes 8xyk
AtAlu(m, k) ==
    /\ m.pc + 1 < RAM_SIZE
    /\ WordAtPc(m) \div 4096 = 8
    /\ WordAtPc(m) % 16 = k

\* 1 for a true condition and 0 for a false one
Flag(cond) == IF cond THEN 1 ELSE 0

(* C14: for every Vx, Vy and x # 0xF: 8xy4 sets Vx = (Vx + Vy) mod 256 and *)
(* VF = 1 iff Vx + Vy > 255; 8xy5 sets Vx = (Vx - Vy) mod 256 and VF = 1   *)
(* iff Vx >= Vy; 8xy7 sets Vx = (Vy - Vx) mod 256 and VF = 1 iff Vy >= Vx. *)
(* When x = 0xF the register ends holding the flag, not the result.        *)
C14_AddSubFlags ==
    [][CycleStep =>
        /\ AtAlu(chip8, 4) =>
              /\ chip8'.v[15] = Flag(chip8.v[XAtPc(chip8)] + chip8.v[YAtPc(chip8)] > 255)
              /\ XAtPc(chip8) # 15 =>
                    chip8'.v[XAtPc(chip8)] =
                        (chip8.v[XAtPc(chip8)] + chip8.v[YAtPc(chip8)]) % 256
        /\ AtAlu(chip8, 5) =>
              /\ chip8'.v[15] = Flag(chip8.v[XAtPc(chip8)] >= chip8.v[YAtPc(chip8)])
              /\ XAtPc(chip8) # 15 =>
                    chip8'.v[XAtPc(chip8)] =
                        (chip8.v[XAtPc(chip8)] - chip8.v[YAtPc(chip8)]) % 256
        /\ AtAlu(chip8, 7) =>
              /\ chip8'.v[15] = Flag(chip8.v[YAtPc(chip8)] >= chip8.v[XAtPc(chip8)])
              /\ XAtPc(chip8) # 15 =>
                    chip8'.v[XAtPc(chip8)] =
                        (chip8.v[YAtPc(chip8)] - chip8.v[XAtPc(chip8)]) % 256
      ]_vars

\* 8125 with V1 = 0x01 and V2 = 0x02 gave V1 = 0xFF and VF = 0 (VF was 0xAA)
C14_Witness ==
    /\ rom = RomOf(<< \H6FAA, \H6101, \H6202, \H8125 >>)
    /\ cycles = 4
    /\ chip8.v[1] = 255
    /\ chip8.v[2] = 2
    /\ chip8.v[15] = 0

\* 8F14 with VF = 0xFF and V1 = 0x01: VF ends as the carry, 1, not as the sum
C14_WitnessFlagRegister ==
    /\ rom = RomOf(<< \H6FAA, \H6FFF, \H6101, \H8F14 >>)
    /\ cycles = 4
    /\ chip8.v[15] = 1

(* C15: 8xy6 sets VF to bit 0 of the pre-instruction Vx and Vx to Vy >> 1; *)
(* 8xyE sets VF to bit 7 of the pre-instruction Vx and Vx to               *)
(* (Vy << 1) mod 256: the flag comes from Vx, the shifted value from Vy,   *)
(* and when x = 0xF the flag is what remains in VF.                        *)
C15_ShiftFlags ==
    [][CycleStep =>
        /\ AtAlu(chip8, 6) =>
              /\ chip8'.v[15] = chip8.v[XAtPc(chip8)] % 2
              /\ XAtPc(chip8) # 15 =>
                    chip8'.v[XAtPc(chip8)] = chip8.v[YAtPc(chip8)] \div 2
        /\ AtAlu(chip8, 14) =>
              /\ chip8'.v[15] = chip8.v[XAtPc(chip8)] \div 128
              /\ XAtPc(chip8) # 15 =>
                    chip8'.v[XAtPc(chip8)] = (2 * chip8.v[YAtPc(chip8)]) % 256
      ]_vars

\* 8126 with V1 = 0x01 and V2 = 0xFE: V1 = 0x7F comes from V2, VF = 1 from V1
C15_Witness ==
    /\ rom = RomOf(<< \H6FAA, \H6101, \H62FE, \H8126 >>)
    /\ cycles = 4
    /\ chip8.v[1] = 127
    /\ chip8.v[15] = 1

\* 812E with V1 = 0x80 and V2 = 0x01: V1 = 0x02 comes from V2, VF = 1 from V1
C15_WitnessLeft ==
    /\ rom = RomOf(<< \H6FAA, \H6180, \H6201, \H812E >>)
    /\ cycles = 4
    /\ chip8.v[1] = 2
    /\ chip8.v[15] = 1

\* the cycle about to run decodes an opcode that writes VF as the flag of an
\* arithmetic, shift or draw operation
AtFlagOpcode(m) ==
    \/ \E k \in {4, 5, 6, 7, 14} : AtAlu(m, k)
    \/ m.pc + 1 < RAM_SIZE /\ WordAtPc(m) \div 4096 = 13

\* contents of VF that a second machine may hold instead
FlagContents == {0, 1, 170, 255}

\* the engine m2 ends the cycle like every engine that differs from m1 in VF
\* only: same registers (VF included) and same screen
SameRegardlessOfVF(m1, ks, m2) ==
    \A content \in FlagContents :
        LET other == instruction_cycle([m1 EXCEPT !.v[15] = content], ks, FALSE, 0).chip8
        IN  other.v = m2.v /\ other.screen = m2.screen

(* C16: in 8xy4, 8xy5, 8xy6, 8xy7, 8xyE and Dxyn VF is only written as the *)
(* flag and never read as an operand: for every x and y, including x = 0xF *)
(* or y = 0xF, two machines that differ only in the pre-instruction        *)
(* content of VF end the opcode with the same registers, flag and screen.  *)
C16_FlagNeverRead ==
    [][(CycleStep /\ AtFlagOpcode(chip8)) =>
            SameRegardlessOfVF(chip8, keys, chip8')]_vars

(* C16 as amended: the same, for the opcodes in which neither x nor y is   *)
(* 0xF.  (An opcode that names VF as Vx or Vy reads it as that operand or  *)
(* coordinate.)                                                            *)
C16_FlagNotReadUnlessNamed ==
    [][(CycleStep /\ AtFlagOpcode(chip8) /\ XAtPc(chip8) # 15 /\ YAtPc(chip8) # 15) =>
            SameRegardlessOfVF(chip8, keys, chip8')]_vars

\* 8124 with V1 = 0xFF and V2 = 0x01 ran on VF = 0xAA: V1 = 0 and VF = 1
C16_Witness ==
    /\ rom = RomOf(<< \H6FAA, \H61FF, \H6201, \H8124 >>)
    /\ cycles = 4
    /\ chip8.instruction = \H8124
    /\ chip8.v[1] = 0
    /\ chip8.v[15] = 1

\* bit k of a byte
Bit(val, k) == (val \div (2 ^ k)) % 2

\* the byte out is the bitwise OR (k = 1), AND (k = 2) or XOR (k = 3) of the
\* bytes a and b
IsBitwise(k, a, b, out) ==
    /\ out \in 0 .. 255
    /\ \A pos \in 0 .. 7 :
          Bit(out, pos) = CASE k = 1 -> Flag(Bit(a, pos) = 1 \/ Bit(b, pos) = 1)
                            [] k = 2 -> Flag(Bit(a, pos) = 1 /\ Bit(b, pos) = 1)
                            [] k = 3 -> Flag(Bit(a, pos) # Bit(b, pos))

(* C17: 8xy1, 8xy2 and 8xy3 set Vx to Vx OR / AND / XOR Vy and then always *)
(* set VF to 0, for every x and y (with x = 0xF the register ends at 0);   *)
(* no other register, I, RAM, the stack, the timers (beyond the regular    *)
(* tick) or the screen changes.                                            *)
C17_LogicClearsFlag ==
    [][CycleStep =>
        \A k \in {1, 2, 3} :
            AtAlu(chip8, k) =>
              /\ result'.kind = "Ok"
              /\ chip8'.v[15] = 0
              /\ XAtPc(chip8) # 15 =>
                    IsBitwise(k, chip8.v[XAtPc(chip8)], chip8.v[YAtPc(chip8)],
                              chip8'.v[XAtPc(chip8)])
              /\ \A reg \in 0 .. 14 :
                    reg # XAtPc(chip8) => chip8'.v[reg] = chip8.v[reg]
              /\ chip8'.i = chip8.i
              /\ chip8'.ram = chip8.ram
              /\ chip8'.stack = chip8.stack
              /\ chip8'.screen = chip8.screen
              /\ TimersTickOnly(chip8, chip8')
      ]_vars

\* 8123 with V1 = 0x81 and V2 = 0xFF gave V1 = 0x7E and took VF from 0xAA to 0
C17_Witness ==
    /\ rom = RomOf(<< \H6FAA, \H6181, \H62FF, \H8123 >>)
    /\ cycles = 4
    /\ chip8.instruction = \H8123
    /\ chip8.v[1] = 126
    /\ chip8.v[15] = 0

\* the cycle about to run decodes Dxyn with its sprite inside RAM
AtDraw(m) ==
    /\ m.pc + 1 < RAM_SIZE
    /\ WordAtPc(m) \div 4096 = 13
    /\ m.i + (WordAtPc(m) % 16) <= RAM_SIZE

\* the cells that the sprite of the Dxyn at pc covers with a 1 bit: bit
\* (7 - j) of row i lands on (Vx mod 64 + j, Vy mod 32 + i) when that is on
\* the screen
CoveredCells(m) ==
    LET left == m.v[XAtPc(m)] % WIDTH
        top  == m.v[YAtPc(m)] % HEIGHT
    IN  { (top + row) * WIDTH + left + col :
            <<row, col>> \in
              { rc \in (0 .. (WordAtPc(m) % 16) - 1) \X (0 .. 7) :
                    /\ left + rc[2] < WIDTH
                    /\ top + rc[1] < HEIGHT
                    /\ Bit(ByteAt(m.ram, m.i + rc[1]), 7 - rc[2]) = 1 } }

(* C18: Screen::draw_sprite(sprite, x, y) XORs bit (7 - j) of sprite row i *)
(* into cell (x mod 64 + j, y mod 32 + i) for exactly those i, j with      *)
(* x mod 64 + j < 64 and y mod 32 + i < 32 and changes no other cell: the  *)
(* start position wraps, rows and columns past the right or bottom edge    *)
(* are clipped and never drawn on the opposite edge.                       *)
C18_DrawXorClips ==
    [][(CycleStep /\ AtDraw(chip8)) =>
        /\ result'.kind = "Ok"
        /\ chip8'.screen = (chip8.screen \ CoveredCells(chip8))
                              \cup (CoveredCells(chip8) \ chip8.screen)
        /\ chip8'.screen \subseteq 0 .. (WIDTH * HEIGHT - 1)
      ]_vars

\* 0xFF drawn at (0, 0) and then at (60, 0): columns 0..7 and 60..63 of row 0
\* are set; nothing of the second draw came back on columns 0..3
C18_Witness ==
    /\ rom[3] = \HD0 /\ rom[4] = \H11
    /\ rom[13] = \HFF
    /\ cycles = 5
    /\ chip8.v[0] = 60 /\ chip8.v[1] = 0
    /\ chip8.screen = (0 .. 7) \cup (60 .. 63)

(* C19: draw_sprite returns true iff at least one cell went from set to    *)
(* unset during the call, and Dxyn stores exactly that in VF (1 or 0),     *)
(* having read the sprite and the position (Vx, Vy) first: VF is           *)
(* overwritten also when x or y select VF as a coordinate, no other        *)
(* register changes, and sprite bits that are clipped away cause no        *)
(* collision.                                                              *)
C19_CollisionFlag ==
    [][(CycleStep /\ AtDraw(chip8)) =>
        /\ chip8'.v[15] = Flag(CoveredCells(chip8) \cap chip8.screen # {})
        /\ chip8'.v[15] = Flag(chip8.screen \ chip8'.screen # {})
        /\ \A reg \in 0 .. 14 : chip8'.v[reg] = chip8.v[reg]
        /\ chip8'.i = chip8.i
      ]_vars

\* the second draw used VF = 3 as its column, erased cells of the first draw
\* and left VF = 1
C19_Witness ==
    /\ rom[3] = \HDF /\ rom[4] = \H13
    /\ rom[5] = \H6F /\ rom[6] = 3
    /\ rom[8] = 0
    /\ rom[13] = \HFF
    /\ cycles = 5
    /\ chip8.v[15] = 1
    /\ chip8.screen # {}

\* the second draw was clipped at the right edge: no collision with columns
\* 0..3 of the first draw
C19_WitnessClipped ==
    /\ rom[3] = \HD0 /\ rom[4] = \H11
    /\ rom[13] = \HFF
    /\ cycles = 5
    /\ chip8.v[0] = 60 /\ chip8.v[1] = 0
    /\ chip8.v[15] = 0

\* the cycle about to run decodes Fx55 (kk = 0x55) or Fx65 (kk = 0x65) with
\* I + x inside RAM
AtCopy(m, kk) == AtOpcode(m, 15, kk) /\ m.i + XAtPc(m) < RAM_SIZE

\* the run has just loaded V0..Vx back with the Fx65 that ends its program
LoadedBack ==
    /\ cycles = 8
    /\ result.kind = "Ok"
    /\ chip8.instruction \div 4096 = 15
    /\ chip8.instruction % 256 = \H65

(* C20: with I + x < 4096, Fx55 copies V0..=Vx to RAM[I..=I+x] and Fx65    *)
(* copies RAM[I..=I+x] to V0..=Vx; each then adds x + 1 to I and changes   *)
(* no register above Vx (Fx55 changes no register, Fx65 no RAM).  Storing  *)
(* with Fx55 at I = a and later loading with Fx65 for the same x with I    *)
(* set back to a restores V0..Vx to the stored values, whatever the        *)
(* registers held in between.                                              *)
C20_StoreLoadRoundTrip ==
    /\ [][CycleStep =>
            /\ AtCopy(chip8, \H55) =>
                  /\ result'.kind = "Ok"
                  /\ \A a \in 0 .. (RAM_SIZE - 1) :
                        ByteAt(chip8'.ram, a) =
                            IF a >= chip8.i /\ a <= chip8.i + XAtPc(chip8)
                            THEN chip8.v[a - chip8.i]
                            ELSE ByteAt(chip8.ram, a)
                  /\ chip8'.v = chip8.v
                  /\ chip8'.i = chip8.i + XAtPc(chip8) + 1
            /\ AtCopy(chip8, \H65) =>
                  /\ result'.kind = "Ok"
                  /\ \A reg \in 0 .. 15 :
                        chip8'.v[reg] =
                            IF reg <= XAtPc(chip8)
                            THEN ByteAt(chip8.ram, chip8.i + reg)
                            ELSE chip8.v[reg]
                  /\ chip8'.ram = chip8.ram
                  /\ chip8'.i = chip8.i + XAtPc(chip8) + 1
        ]_vars
    /\ [](LoadedBack =>
            /\ chip8.v[0] = rom[2]
            /\ chip8.v[2] = IF (chip8.instruction \div 256) % 16 >= 2
                            THEN rom[4] ELSE \HEE
            /\ (chip8.instruction \div 256) % 16 >= 1 => chip8.v[1] = 0)

\* V0 = 0x11, V1 = 0 and V2 = 0xFF were stored at 0xFFD..0xFFF, V0 and V2
\* overwritten, and all three loaded back; I ends at 0x1000
C20_Witness ==
    /\ rom = RomOf(<< \H6011, \H62FF, \HAFFD, \HF255, \H60FF, \H62EE, \HAFFD, \HF265 >>)
    /\ LoadedBack
    /\ chip8.v[0] = 17
    /\ chip8.v[2] = 255
    /\ chip8.i = \H1000
    /\ ByteAt(chip8.ram, \HFFF) = 255

(* C21: I is a 12-bit address: in every reachable state I < 0x1000, in     *)
(* particular after Fx1E (I += Vx), after Fx29 (I = 5 * Vx) and after the  *)
(* I += x + 1 of Fx55 and Fx65.                                            *)
C21_IndexIsTwelveBits == Alive => chip8.i < RAM_SIZE

(* C22: after a successful Chip8::new(rom), pc = 0x200, V0..VF = 0, I = 0, *)
(* dt = st = 0, the stack is empty, every screen cell is unset,            *)
(* RAM[0..0x50) holds the font sprites in the order of FONT_SPRITES,       *)
(* RAM[0x200..0x200+len) equals the ROM and every other RAM byte is 0.     *)
C22_FreshMachine ==
    (cycles = 0 /\ result.kind = "Created") =>
        /\ chip8.pc = 512
        /\ \A reg \in 0 .. 15 : chip8.v[reg] = 0
        /\ chip8.i = 0
        /\ chip8.dt = 0
        /\ chip8.st = 0
        /\ chip8.stack = <<>>
        /\ \A px \in 0 .. (WIDTH - 1), py \in 0 .. (HEIGHT - 1) :
              ~pixel(chip8.screen, px, py)
        /\ \A a \in 0 .. 4095 :
              ByteAt(chip8.ram, a) =
                 IF a < 80 THEN FONT_SPRITES[a + 1]
                 ELSE IF a >= 512 /\ a < 512 + Len(rom) THEN rom[a - 511]
                 ELSE 0

\* a freshly built machine whose ROM fills the whole program area
C22_Witness ==
    /\ cycles = 0
    /\ result.kind = "Created"
    /\ Len(rom) = 3584
    /\ ByteAt(chip8.ram, 4095) = rom[3584]
    /\ ByteAt(chip8.ram, 4095) # 0
    /\ ByteAt(chip8.ram, 79) = 128
    /\ ByteAt(chip8.ram, 80) = 0

\* the condition under which the skip opcode at pc skips
SkipTaken(m) ==
    LET raw == WordAtPc(m)
        vx  == m.v[XAtPc(m)]
        vy  == m.v[YAtPc(m)]
    IN  CASE raw \div 4096 = 3 -> vx = raw % 256
          [] raw \div 4096 = 4 -> vx # raw % 256
          [] raw \div 4096 = 5 -> vx = vy
          [] raw \div 4096 = 9 -> vx # vy
          [] OTHER -> FALSE

\* the opcode at pc is one of 3xnn, 4xnn, 5xy0, 9xy0
AtSkip(m) ==
    /\ m.pc + 1 < RAM_SIZE
    /\ \/ WordAtPc(m) \div 4096 \in {3, 4}
       \/ WordAtPc(m) \div 4096 \in {5, 9} /\ WordAtPc(m) % 16 = 0

(* C23: every successful fetch first advances pc by 2; 3xnn, 4xnn, 5xy0    *)
(* and 9xy0 add a further 2 exactly when their condition holds and change  *)
(* nothing else; 1nnn and Bnnn overwrite pc with nnn and with nnn + V0,    *)
(* the latter not reduced to 12 bits.                                      *)
C23_ProgramCounter ==
    [][(CycleStep /\ Alive /\ chip8.pc + 1 < RAM_SIZE) =>
          LET raw  == WordAtPc(chip8)
              high == raw \div 4096
          IN  /\ AtSkip(chip8) =>
                    /\ chip8'.pc = chip8.pc + 2 + (IF SkipTaken(chip8) THEN 2 ELSE 0)
                    /\ SameData(chip8, chip8')
                    /\ TimersTickOnly(chip8, chip8')
                    /\ result'.kind = "Ok"
              /\ high = 1 => chip8'.pc = raw % 4096 /\ SameData(chip8, chip8')
              /\ high = 11 =>
                    /\ chip8'.pc = (raw % 4096) + chip8.v[0]
                    /\ SameData(chip8, chip8')
              /\ (high \in {6, 7, 10} \/ raw = 0) => chip8'.pc = chip8.pc + 2
      ]_vars

\* BFFF with V0 = 0xFF has left pc = 0x10FE
C23_Witness ==
    /\ result.kind = "Ok"
    /\ chip8.instruction = 49151
    /\ chip8.v[0] = 255
    /\ chip8.pc = 4350

\* a 9xy0 on different registers, and a 3xnn on an equal byte, have skipped
C23_WitnessSkip ==
    /\ result.kind = "Ok"
    /\ cycles = 3
    /\ chip8.instruction \div 4096 \in {3, 9}
    /\ chip8.instruction \div 4096 = 9 => chip8.v[1] # chip8.v[2]
    /\ chip8.instruction \div 4096 = 3 => chip8.v[15] = 255
    /\ chip8.pc = 520

(* C27: 6xnn sets Vx = nn and 7xnn sets Vx = (Vx + nn) mod 256; for        *)
(* x # 0xF neither changes VF (7xnn writes no carry), and neither changes  *)
(* any other register, I, RAM, the stack or the screen.                    *)
C27_LoadAndAddByte ==
    [][(CycleStep /\ Alive /\ chip8.pc + 1 < RAM_SIZE
           /\ WordAtPc(chip8) \div 4096 \in {6, 7}) =>
          LET raw == WordAtPc(chip8)
              rx  == XAtPc(chip8)
          IN  /\ result'.kind = "Ok"
              /\ chip8'.v[rx] = IF raw \div 4096 = 6 THEN raw % 256
                                ELSE (chip8.v[rx] + (raw % 256)) % 256
              /\ \A reg \in 0 .. 15 : reg # rx => chip8'.v[reg] = chip8.v[reg]
              /\ chip8'.i = chip8.i
              /\ chip8'.ram = chip8.ram
              /\ chip8'.stack = chip8.stack
              /\ chip8'.screen = chip8.screen
      ]_vars

\* 7101 on V1 = 0xFF has wrapped to 0 and VF still holds the 0xAA loaded first
C27_Witness ==
    /\ result.kind = "Ok"
    /\ cycles = 3
    /\ chip8.instruction = 28929
    /\ chip8.v[1] = 0
    /\ chip8.v[15] = 170

\* 7F80 on VF = 0x80 has wrapped VF itself to 0
C27_WitnessFlagRegister ==
    /\ result.kind = "Ok"
    /\ cycles = 3
    /\ chip8.instruction = 32640
    /\ chip8.v[15] = 0

\* the skip of a key opcode: Ex9E skips on a pressed key, ExA1 on a key not
\* pressed
KeySkip(m, isPressed) ==
    IF WordAtPc(m) % 256 = 158 THEN isPressed ELSE ~isPressed

\* the cycle about to run decodes Ex9E or ExA1
AtKeyOpcode(m) == AtOpcode(m, 14, 158) \/ AtOpcode(m, 14, 161)

(* C24: for Vx in 0..=0xF, Ex9E skips iff bit Vx of the Keys passed to     *)
(* this very cycle is set, and ExA1 iff it is clear; after any sequence of *)
(* press and release events on keys 0..15, key k is pressed iff the latest *)
(* event for k was a press, and an event changes the bit of one key only.  *)
C24_KeySnapshot ==
    [][/\ (CycleStep /\ Alive /\ AtKeyOpcode(chip8) /\ chip8.v[XAtPc(chip8)] <= 15) =>
             /\ result'.kind = "Ok"
             /\ chip8'.pc = chip8.pc + 2 +
                   (IF KeySkip(chip8, Bit(keys.raw, chip8.v[XAtPc(chip8)]) = 1)
                    THEN 2 ELSE 0)
       /\ \A key \in 0 .. 15 : (Bit(keys'.raw, key) = 1) <=> (key \in held')
       /\ \E key \in 0 .. 15 :
             \A other \in (0 .. 15) \ {key} :
                Bit(keys'.raw, other) = Bit(keys.raw, other)
      ]_vars

\* E19E with V1 = 15 has skipped on a key pressed after the cycle before it,
\* and the key has been released since
C24_Witness ==
    /\ result.kind = "Ok"
    /\ cycles = 2
    /\ chip8.instruction = 57758
    /\ chip8.v[1] = 15
    /\ chip8.pc = 518
    /\ Bit(chip8.keys.raw, 15) = 1
    /\ Bit(chip8.keys.raw, 3) = 1
    /\ keys.raw = 8

(* C29: Ex9E and ExA1 complete with Ok for every Vx in 0..=255: when       *)
(* Vx > 0xF no key is reported pressed (Ex9E does not skip, ExA1 skips)    *)
(* and the cycle does not abort.                                           *)
C29_KeyAboveFifteen ==
    [][(CycleStep /\ Alive /\ AtKeyOpcode(chip8) /\ chip8.v[XAtPc(chip8)] > 15) =>
          /\ result'.kind = "Ok"
          /\ chip8'.pc = chip8.pc + 2 + (IF KeySkip(chip8, FALSE) THEN 2 ELSE 0)
      ]_vars

\* the part of C29 a build without overflow checks decides: no abort there,
\* and still no key above 0xF is reported pressed
C29_KeyAboveFifteenRelease ==
    [][(CycleStep /\ Alive /\ ~overflow_checks /\ AtKeyOpcode(chip8)
           /\ chip8.v[XAtPc(chip8)] > 15) =>
          /\ result'.kind = "Ok"
          /\ chip8'.pc = chip8.pc + 2 + (IF KeySkip(chip8, FALSE) THEN 2 ELSE 0)
      ]_vars

(* C25: Fx33 with I + 2 < 4096 writes the hundreds, tens and ones digits   *)
(* of Vx at RAM[I], RAM[I+1], RAM[I+2]: each is in 0..=9 and               *)
(* 100*a + 10*b + c = Vx, for every Vx in 0..=255; I, every register and   *)
(* every other RAM byte are unchanged.                                     *)
C25_BinaryCodedDecimal ==
    [][(CycleStep /\ Alive /\ AtOpcode(chip8, 15, 51) /\ chip8.i + 2 < RAM_SIZE) =>
          LET vx    == chip8.v[XAtPc(chip8)]
              hund  == ByteAt(chip8'.ram, chip8.i)
              tens  == ByteAt(chip8'.ram, chip8.i + 1)
              ones  == ByteAt(chip8'.ram, chip8.i + 2)
              other == (DOMAIN chip8.ram \cup DOMAIN chip8'.ram)
                          \ {chip8.i, chip8.i + 1, chip8.i + 2}
          IN  /\ result'.kind = "Ok"
              /\ {hund, tens, ones} \subseteq 0 .. 9
              /\ 100 * hund + 10 * tens + ones = vx
              /\ chip8'.i = chip8.i
              /\ chip8'.v = chip8.v
              /\ \A a \in other : ByteAt(chip8'.ram, a) = ByteAt(chip8.ram, a)
      ]_vars

\* F333 with V3 = 255 has written 2, 5, 5 into the last three bytes of RAM
C25_Witness ==
    /\ result.kind = "Ok"
    /\ chip8.instruction = 62259
    /\ chip8.v[3] = 255
    /\ chip8.i = 4093
    /\ ByteAt(chip8.ram, 4093) = 2
    /\ ByteAt(chip8.ram, 4094) = 5
    /\ ByteAt(chip8.ram, 4095) = 5

(* C26: for every 16-bit raw value the Instruction accessors agree with    *)
(* bit masking: nibbles() = (raw >> 12, (raw >> 8) & 0xF, (raw >> 4) & 0xF,*)
(* raw & 0xF), x() and y() and n() are the second, third and fourth of     *)
(* them, nn() = raw & 0xFF, nnn() = raw & 0xFFF; hence nn = 16*y + n,      *)
(* nnn = 256*x + nn and the four nibbles recompose to raw.                 *)
C26_AccessorsMatchMasks ==
    (cycles = 1 /\ result.kind \in {"Ok", "UnknownInstruction"}) =>
        LET raw == chip8.instruction
            nib == nibbles(raw)
        IN  /\ raw = 256 * rom[1] + rom[2]
            /\ nib = << raw \div 4096, (raw \div 256) % 16, (raw \div 16) % 16,
                        raw % 16 >>
            /\ x(raw) = (raw \div 256) % 16
            /\ y(raw) = (raw \div 16) % 16
            /\ n(raw) = raw % 16
            /\ nn(raw) = raw % 256
            /\ nnn(raw) = raw % 4096
            /\ nn(raw) = 16 * y(raw) + n(raw)
            /\ nnn(raw) = 256 * x(raw) + nn(raw)
            /\ 4096 * nib[1] + 256 * nib[2] + 16 * nib[3] + nib[4] = raw

\* the first cycle has fetched 0xABCD and its accessors give A, B, C, D,
\* 0xCD and 0xBCD
C26_Witness ==
    /\ cycles = 1
    /\ chip8.instruction = 43981
    /\ nibbles(chip8.instruction) = <<10, 11, 12, 13>>
    /\ x(chip8.instruction) = 11
    /\ y(chip8.instruction) = 12
    /\ n(chip8.instruction) = 13
    /\ nn(chip8.instruction) = 205
    /\ nnn(chip8.instruction) = 3021

\* the RAM addresses whose byte differs between the engines m1 and m2
ChangedBytes(m1, m2) ==
    {a \in DOMAIN m1.ram \cup DOMAIN m2.ram : ByteAt(m1.ram, a) # ByteAt(m2.ram, a)}

(* C30: RAM is written only by Fx33 (3 bytes at I) and Fx55 (x + 1 bytes   *)
(* at I): every other opcode, and every failing cycle, leaves all bytes    *)
(* unchanged; nothing keeps these two opcodes from overwriting the font or *)
(* the program.                                                            *)
C30_RamWriters ==
    [][(CycleStep /\ Alive) =>
          /\ ~(AtOpcode(chip8, 15, 51) \/ AtOpcode(chip8, 15, 85)) =>
                chip8'.ram = chip8.ram
          /\ result'.kind \in {"NoMoreInstructions", "UnknownInstruction"} =>
                chip8'.ram = chip8.ram
          /\ AtOpcode(chip8, 15, 51) =>
                ChangedBytes(chip8, chip8') \subseteq chip8.i .. (chip8.i + 2)
          /\ AtOpcode(chip8, 15, 85) =>
                ChangedBytes(chip8, chip8') \subseteq chip8.i .. (chip8.i + XAtPc(chip8))
      ]_vars

\* FF55 with I = 0 has overwritten the first font sprites with V0..VF
C30_Witness ==
    /\ cycles = 1
    /\ result.kind = "Ok"
    /\ chip8.instruction = 65365
    /\ \A a \in 0 .. 15 : ByteAt(chip8.ram, a) = 0
    /\ ByteAt(chip8.ram, 16) = FONT_SPRITES[17]
    /\ ByteAt(chip8.ram, 512) = 255

\* the cycle about to run decodes Cxnn
AtRand(m) == m.pc + 1 < RAM_SIZE /\ WordAtPc(m) \div 4096 = 12


\* the values the Cxnn at pc can leave in Vx: one for each byte the cycle can
\* draw
RandOutcomes(m, ks) ==
    {instruction_cycle(m, ks, FALSE, rnd).chip8.v[XAtPc(m)] : rnd \in RndChoices(m)}

(* C28: Cxnn sets Vx = r AND nn for a random byte r drawn from the full    *)
(* byte range 0..=255: Vx never has a bit set outside nn, and every value  *)
(* r AND nn with r in 0..=255 (0xFF included when nn = 0xFF) is a possible *)
(* result.                                                                 *)
C28_RandomFullRange ==
    /\ (result.kind = "Ok" /\ cycles > 0 /\ chip8.instruction \div 4096 = 12) =>
          \A k \in 0 .. 7 :
             Bit(chip8.v[(chip8.instruction \div 256) % 16], k)
                <= Bit(chip8.instruction % 256, k)
    /\ (Alive /\ cycles < MaxCycles /\ AtRand(chip8)) =>
          \E outcomes \in {RandOutcomes(chip8, keys)} :
             \A r \in 0 .. 255 :
                \E val \in outcomes :
                   \A k \in 0 .. 7 :
                      Bit(val, k) = Bit(r, k) * Bit(WordAtPc(chip8) % 256, k)

\* the cells the background D23F of a redraw program sets on the blank
\* screen: bit (7 - j) of the sprite byte i of the ROM, at column j of line i
Background ==
    { line * WIDTH + col :
        <<line, col>> \in { rc \in (0 .. 14) \X (0 .. 7) :
                              Bit(rom[15 + rc[1]], 7 - rc[2]) = 1 } }

\* the Dxyn about to run draws where the loads of the ROM put the sprite
AtLoadedPosition(m) ==
    /\ m.v[XAtPc(m)] % WIDTH = rom[6] % WIDTH
    /\ m.v[YAtPc(m)] % HEIGHT = rom[8] % HEIGHT

(* C31: drawing the same sprite twice at the same position restores the    *)
(* screen to its content before the first draw, and the second draw        *)
(* reports a collision iff the first draw turned at least one cell on.     *)
C31_DrawTwiceRestores ==
    [][CycleStep =>
          /\ cycles = 4 =>
                /\ chip8.screen = Background
                /\ AtDraw(chip8) /\ AtLoadedPosition(chip8)
          /\ (cycles = 5 /\ AtLoadedPosition(chip8)) =>
                /\ result'.kind = "Ok"
                /\ WordAtPc(chip8) = chip8.instruction
                /\ chip8'.screen = Background
                /\ chip8'.v[15] = Flag(chip8.screen \ Background # {})
      ]_vars

\* the sprite drawn twice at (3, 1) over the background: the first draw set
\* cells, the second reported the collision and the background is back
C31_Witness ==
    /\ cycles = 6
    /\ result.kind = "Ok"
    /\ rom[6] = 3 /\ rom[8] = 1
    /\ chip8.instruction % 16 = 3
    /\ chip8.v[0] = 3 /\ chip8.v[1] = 1
    /\ chip8.v[15] = 1
    /\ chip8.screen = Background
    /\ Background # {}

\* the sprite drawn twice at (0, 0), on its own copy in the background: the
\* first draw only erased, so the second reported no collision
C31_WitnessNoCollision ==
    /\ cycles = 6
    /\ result.kind = "Ok"
    /\ rom[6] = 0 /\ rom[8] = 0
    /\ chip8.instruction % 16 = 3
    /\ chip8.v[0] = 0 /\ chip8.v[1] = 0
    /\ chip8.v[15] = 0
    /\ chip8.screen = Background
    /\ Background # {}

\* the opcodes C32 leaves out: jumps, call, return, the key wait and the
\* unknown opcodes
Diverting(raw) ==
    \/ raw \div 4096 \in {1, 2, 11}
    \/ raw = \H00EE
    \/ raw \div 4096 = 15 /\ raw % 256 = \H0A
    \/ ListedUnknown(raw)

\* the cycle about to run fetches an opcode that C32 does not leave out
AtStraightOpcode(m) == m.pc + 1 < RAM_SIZE /\ ~Diverting(WordAtPc(m))

(* C32: RAM after the loaded ROM is zero and decodes as the no-op 0000, so *)
(* execution does not stop at the end of the ROM: a program that executes  *)
(* no jump, call, return, Fx0A or unknown opcode has a strictly increasing *)
(* pc and reaches NoMoreInstructions after finitely many cycles; an empty  *)
(* ROM after exactly 1792 no-op cycles, on the 1793rd call.                *)
C32_RunsToEndOfRam ==
    [][(CycleStep /\ Alive) =>
          /\ \A a \in DOMAIN chip8.ram : a < 80 \/ a < ROM_LOC + Len(rom)
          /\ AtStraightOpcode(chip8) =>
                /\ result'.kind = "Ok"
                /\ chip8'.pc > chip8.pc
          /\ chip8.pc + 1 >= RAM_SIZE => result'.kind = "NoMoreInstructions"
          /\ rom = <<>> =>
                /\ cycles' <= 1792 => result'.kind = "Ok" /\ chip8'.instruction = 0
                /\ cycles' = 1793 => result'.kind = "NoMoreInstructions"
      ]_vars

\* what C32 says of the cycles that do not panic
C32_RunsToEndUnlessPanic ==
    [][(CycleStep /\ Alive) =>
          /\ \A a \in DOMAIN chip8.ram : a < 80 \/ a < ROM_LOC + Len(rom)
          /\ AtStraightOpcode(chip8) =>
                \/ result'.kind = "Ok" /\ chip8'.pc > chip8.pc
                \/ result'.kind = "Panic"
          /\ chip8.pc + 1 >= RAM_SIZE => result'.kind = "NoMoreInstructions"
          /\ rom = <<>> =>
                /\ cycles' <= 1792 => result'.kind = "Ok" /\ chip8'.instruction = 0
                /\ cycles' = 1793 => result'.kind = "NoMoreInstructions"
      ]_vars

\* the part of C32 a build without overflow checks decides: no key query
\* aborts there, and a straight program still has to run on
C32_RunsToEndOfRamRelease ==
    [][(CycleStep /\ Alive /\ ~overflow_checks /\ AtStraightOpcode(chip8)) =>
          /\ result'.kind = "Ok"
          /\ chip8'.pc > chip8.pc
      ]_vars

\* the last call of instruction_cycle returned an Err
CycleFailed == result.kind \in {"NoMoreInstructions", "UnknownInstruction"}

(* C33: the pixels driver stops on the first error: once instruction_cycle *)
(* returns NoMoreInstructions or UnknownInstruction the frontend exits its *)
(* event loop and never calls instruction_cycle again; it halts on unknown *)
(* opcodes and does not skip them.                                         *)
C33_DriverStopsOnError ==
    [][CycleFailed =>
          /\ cycles' = cycles
          /\ chip8' = chip8
          /\ result' = result
          /\ keys' = keys
      ]_vars

\* the frontend has left its loop on the unknown opcode 0123, with cycles to
\* spare, and the 6005 after it has not run
C33_Witness ==
    /\ rom = <<1, 35, 96, 5>>
    /\ result.kind = "UnknownInstruction"
    /\ exited
    /\ cycles = 1
    /\ cycles < MaxCycles
    /\ chip8.pc = 514
    /\ chip8.v[0] = 0

\* the frontend has left its loop on NoMoreInstructions after the jump 1FFF
C33_WitnessNoMore ==
    /\ rom = <<31, 255>>
    /\ result.kind = "NoMoreInstructions"
    /\ exited
    /\ cycles = 2
    /\ cycles < MaxCycles

============================================================================
